---- MODULE Spec2Model ----
(***************************************************************************)
(* Model of the chemical identifier resolution engine of modelcules:       *)
(* src/utils/identifierLookup.ts (normalisation, validation, cache, local  *)
(* table, remote sources with retry wrapper, confidence) and the input     *)
(* handler of App.tsx that merges a resolved set into the displayed        *)
(* identifiers.                                                            *)
(*                                                                         *)
(* JavaScript strings are TLA+ strings; a character is a string of length  *)
(* one.  An identifier set (Partial<ChemicalIdentifiers>) is a function    *)
(* whose domain is the set of populated keys.  Confidence values are       *)
(* integers scaled by ConfScale.  Time is in milliseconds.                 *)
(***************************************************************************)
EXTENDS FiniteSets, Integers, Sequences, TLC

(***************************************************************************)
(* String helpers: the String.prototype / RegExp operations the code uses. *)
(***************************************************************************)
Ch(s, i) == SubSeq(s, i, i)

CharsOf(s) == {Ch(s, i) : i \in 1..Len(s)}

UpperLetters == "ABCDEFGHIJKLMNOPQRSTUVWXYZ"

LowerLetters == "abcdefghijklmnopqrstuvwxyz"

UpperSet == CharsOf(UpperLetters)

LowerSet == CharsOf(LowerLetters)

LetterSet == UpperSet \cup LowerSet

DigitSet == CharsOf("0123456789")

\* \s of a regular expression, the characters trim() removes
WhiteSet == {" ", "\t", "\n", "\r"}

IndexIn(s, c) == CHOOSE i \in 1..Len(s) : Ch(s, i) = c

LowerCh(c) == IF c \in UpperSet THEN Ch(LowerLetters, IndexIn(UpperLetters, c)) ELSE c

UpperCh(c) == IF c \in LowerSet THEN Ch(UpperLetters, IndexIn(LowerLetters, c)) ELSE c

RECURSIVE toLowerCase(_)
toLowerCase(s) == IF s = "" THEN "" ELSE LowerCh(Head(s)) \o toLowerCase(Tail(s))

RECURSIVE toUpperCase(_)
toUpperCase(s) == IF s = "" THEN "" ELSE UpperCh(Head(s)) \o toUpperCase(Tail(s))

RECURSIVE trimStart(_)
trimStart(s) == IF s # "" /\ Head(s) \in WhiteSet THEN trimStart(Tail(s)) ELSE s

RECURSIVE trimEnd(_)
trimEnd(s) ==
  IF s # "" /\ Ch(s, Len(s)) \in WhiteSet THEN trimEnd(SubSeq(s, 1, Len(s) - 1)) ELSE s

trim(s) == trimEnd(trimStart(s))

slice(s, from, to) == SubSeq(s, from + 1, IF to > Len(s) THEN Len(s) ELSE to)

sliceFrom(s, from) == SubSeq(s, from + 1, Len(s))

startsWith(s, p) == Len(s) >= Len(p) /\ SubSeq(s, 1, Len(p)) = p

\* every character of s is in the class cs (a regular expression ^[cs]*$)
AllIn(s, cs) == \A i \in 1..Len(s) : Ch(s, i) \in cs

\* some character of s is in the class cs (a regular expression [cs])
SomeIn(s, cs) == \E i \in 1..Len(s) : Ch(s, i) \in cs

\* s.replace(/^prefix:?/i, by): a leading prefix, in any letter case, with an
\* optional colon after it, is replaced by the string by
replacePrefix(s, prefix, by) ==
  IF startsWith(toLowerCase(s), toLowerCase(prefix))
  THEN LET rest == sliceFrom(s, Len(prefix))
       IN  by \o (IF startsWith(rest, ":") THEN sliceFrom(rest, 1) ELSE rest)
  ELSE s

\* parseInt(s) > 0 for a string of digits
parseIntPositive(s) == SomeIn(s, DigitSet \ {"0"})

(***************************************************************************)
(* The twelve kinds of ChemicalIdentifiers.                                *)
(***************************************************************************)
ChemicalIdentifiers ==
  {"iupacName", "casNumber", "chemSpider", "echaInfoCard", "ecNumber", "eNumber",
   "pubchemCID", "rtecsNumber", "unii", "compToxDashboard", "inchi", "smiles"}

\* the empty identifier set {}
NoIdentifiers == [t \in {} |-> ""]

\* identifiers[t] = v on an identifier set
SetField(ids, t, v) == [u \in DOMAIN ids \cup {t} |-> IF u = t THEN v ELSE ids[u]]

\* Boolean(identifiers[t]): the field is present and not the empty string
Populated(ids, t) == t \in DOMAIN ids /\ ids[t] # ""

(***************************************************************************)
(* VALIDATION_PATTERNS                                                     *)
(***************************************************************************)
\* /^\d{2,7}-\d{2}-\d$/
MatchCAS(s) ==
  LET n == Len(s)
  IN  /\ n >= 7 /\ n <= 12
      /\ AllIn(SubSeq(s, 1, n - 5), DigitSet)
      /\ Ch(s, n - 4) = "-"
      /\ AllIn(SubSeq(s, n - 3, n - 2), DigitSet)
      /\ Ch(s, n - 1) = "-"
      /\ Ch(s, n) \in DigitSet

\* MatchDigits that refuses a number that is zero
MatchDigits_NonZero(s) ==
  Len(s) >= 1 /\ AllIn(s, DigitSet) /\ SomeIn(s, DigitSet \ {"0"})

\* /^\d+$/
MatchDigits(s) == Len(s) >= 1 /\ AllIn(s, DigitSet)

\* /^[A-Z0-9]{10}$/
MatchUNII(s) == Len(s) = 10 /\ AllIn(s, UpperSet \cup DigitSet)

\* /^\d{3}-\d{3}-\d$/
MatchEC(s) ==
  /\ Len(s) = 9
  /\ AllIn(SubSeq(s, 1, 3), DigitSet) /\ Ch(s, 4) = "-"
  /\ AllIn(SubSeq(s, 5, 7), DigitSet) /\ Ch(s, 8) = "-"
  /\ Ch(s, 9) \in DigitSet

\* /^E\d{3,4}[a-z]?$/i
MatchENumber(s) ==
  LET n == Len(s)
      body == IF Ch(s, n) \in LetterSet THEN SubSeq(s, 2, n - 1) ELSE SubSeq(s, 2, n)
  IN  /\ n >= 4
      /\ Ch(s, 1) \in {"E", "e"}
      /\ Len(body) \in 3..4
      /\ AllIn(body, DigitSet)

SmilesSet ==
  LetterSet \cup DigitSet \cup
  {"@", "+", "-", "[", "]", "(", ")", "=", "#", "$", ":", ".", "\\", "/"}

\* /^[A-Za-z0-9@+\-\[\]()=#$:.\\\/]+$/
MatchSMILES(s) == Len(s) >= 1 /\ AllIn(s, SmilesSet)

\* /^InChI=1S?\//
MatchInChI(s) == startsWith(s, "InChI=1S/") \/ startsWith(s, "InChI=1/")

\* /^[A-Z]{2}\d{7}$/
MatchRTECS(s) ==
  Len(s) = 9 /\ AllIn(SubSeq(s, 1, 2), UpperSet) /\ AllIn(SubSeq(s, 3, 9), DigitSet)

\* /^DTXSID\d{7,}$/
MatchDTXSID(s) ==
  startsWith(s, "DTXSID") /\ Len(s) >= 13 /\ AllIn(sliceFrom(s, 6), DigitSet)

PatternKinds ==
  {"casNumber", "pubchemCID", "unii", "chemSpider", "ecNumber", "eNumber",
   "smiles", "inchi", "rtecsNumber", "compToxDashboard"}

\* VALIDATION_PATTERNS[type].test(s), for type in PatternKinds
VALIDATION_PATTERNS(type, s) ==
  CASE type = "casNumber" -> MatchCAS(s)
    [] type = "pubchemCID" -> MatchDigits(s)
    [] type = "unii" -> MatchUNII(s)
    [] type = "chemSpider" -> MatchDigits(s)
    [] type = "ecNumber" -> MatchEC(s)
    [] type = "eNumber" -> MatchENumber(s)
    [] type = "smiles" -> MatchSMILES(s)
    [] type = "inchi" -> MatchInChI(s)
    [] type = "rtecsNumber" -> MatchRTECS(s)
    [] type = "compToxDashboard" -> MatchDTXSID(s)

(***************************************************************************)
(* normalizeIdentifier, validateIdentifier, getCacheKey, isCacheValid      *)
(***************************************************************************)
normalizeIdentifier(type, value) ==
  LET trimmed == trim(value)
  IN  CASE type = "casNumber" ->
             IF Len(trimmed) \in 8..9 /\ AllIn(trimmed, DigitSet)
             THEN IF Len(trimmed) = 8
                  THEN slice(trimmed, 0, 5) \o "-" \o slice(trimmed, 5, 7) \o "-"
                         \o sliceFrom(trimmed, 7)
                  ELSE slice(trimmed, 0, 6) \o "-" \o slice(trimmed, 6, 8) \o "-"
                         \o sliceFrom(trimmed, 8)
             ELSE trimmed
        [] type \in {"pubchemCID", "chemSpider"} ->
             replacePrefix(replacePrefix(trimmed, "CID", ""), "CSID", "")
        [] type = "inchi" ->
             IF startsWith(trimmed, "InChI=") THEN trimmed ELSE "InChI=" \o trimmed
        [] type = "eNumber" ->
             LET up == toUpperCase(trimmed)
             IN  IF startsWith(up, "E") THEN up ELSE "E" \o up
        [] type \in {"unii", "rtecsNumber"} -> toUpperCase(trimmed)
        [] type = "compToxDashboard" ->
             replacePrefix(toUpperCase(trimmed), "DTXSID", "DTXSID")
        [] OTHER -> trimmed

validateIdentifier(type, value) ==
  IF type \notin PatternKinds THEN TRUE
  ELSE VALIDATION_PATTERNS(type, normalizeIdentifier(type, value))

\* getCacheKey that keeps the letter case of the value
getCacheKey_CaseSensitive(type, value) == type \o ":" \o normalizeIdentifier(type, value)

getCacheKey(type, value) == type \o ":" \o toLowerCase(normalizeIdentifier(type, value))

CACHE_DURATION == 60 * 60 * 1000

\* isCacheValid that still accepts an entry of exactly CACHE_DURATION
isCacheValid_Inclusive(timestamp, dateNow) == dateNow - timestamp <= CACHE_DURATION

isCacheValid(timestamp, dateNow) == dateNow - timestamp < CACHE_DURATION

(***************************************************************************)
(* isReasonableInput                                                       *)
(***************************************************************************)
\* [a-z0-9\-\[\]()=\s] under the i flag
ReasonableSet == LetterSet \cup DigitSet \cup {"-", "[", "]", "(", ")", "="} \cup WhiteSet

ConsonantSet == CharsOf("bcdfghjklmnpqrstvwxyz") \cup CharsOf("BCDFGHJKLMNPQRSTVWXYZ")

\* /[bcdfghjklmnpqrstvwxyz]{5,}/i
FiveConsonants(s) ==
  \E i \in 1..(Len(s) - 4) : AllIn(SubSeq(s, i, i + 4), ConsonantSet)

isReasonableInput(type, value) ==
  LET trimmed == toLowerCase(trim(value))
  IN  IF Len(trimmed) < 2 THEN FALSE
      ELSE IF ~SomeIn(trimmed, ReasonableSet) THEN FALSE
      ELSE IF /\ Len(trimmed) \in 1..3 /\ AllIn(trimmed, LowerSet)
              /\ trimmed \notin {"o", "c", "n", "h"} THEN FALSE
      ELSE CASE type = "iupacName" ->
                  IF ~SomeIn(trimmed, LetterSet) THEN FALSE
                  ELSE IF Len(trimmed) < 2 THEN FALSE
                  ELSE IF trimmed \in {"o", "c", "n", "h", "f", "cl", "br", "i", "s", "p"}
                       THEN TRUE
                  ELSE IF /\ Len(trimmed) >= 3
                          /\ \/ /\ ~SomeIn(trimmed, CharsOf("aeiouyAEIOUY"))
                                /\ trimmed \notin {"ch4", "nh3", "hcl", "h2o", "co2",
                                                   "h2s", "hf", "hbr", "hi"}
                             \/ FiveConsonants(trimmed)
                       THEN FALSE
                  ELSE TRUE
             [] type = "casNumber" -> MatchCAS(trimmed)
             [] type \in {"pubchemCID", "chemSpider"} ->
                  MatchDigits(trimmed) /\ parseIntPositive(trimmed)
             [] type = "smiles" -> MatchSMILES(trimmed)
             [] type = "inchi" -> startsWith(trimmed, "inchi=")
             [] type = "unii" ->
                  Len(trimmed) = 10 /\ AllIn(trimmed, LetterSet \cup DigitSet)
             [] OTHER -> Len(trimmed) >= 2 /\ SomeIn(trimmed, LetterSet \cup DigitSet)

(***************************************************************************)
(* calculateConfidence, scaled by ConfScale (1.0 is ConfScale)             *)
(***************************************************************************)
ConfScale == 1000

Min(a, b) == IF a < b THEN a ELSE b

\* Max that returns its first argument
Max_First(a, b) == a

Max(a, b) == IF a > b THEN a ELSE b

\* calculateConfidence without the boost for the requested kind
calculateConfidence_NoBoost(identifiers, sourceType) ==
  Max(Min((Cardinality(DOMAIN identifiers) * ConfScale) \div 8, ConfScale),
      (3 * ConfScale) \div 10)

calculateConfidence(identifiers, sourceType) ==
  LET identifierCount == Cardinality(DOMAIN identifiers)
      hasSourceType == Populated(identifiers, sourceType)
      base == Min((identifierCount * ConfScale) \div 8, ConfScale)
      boosted == IF hasSourceType THEN Min(base + (2 * ConfScale) \div 10, ConfScale)
                 ELSE base
  IN  Max(boosted, (3 * ConfScale) \div 10)

(***************************************************************************)
(* getLocalIdentifiers: the static table commonCompounds.  The entries of   *)
(* one compound are equal object literals; each is written once here and   *)
(* the table lists the keys in the order of the source.                    *)
(***************************************************************************)
Water ==
  [iupacName |-> "water",
   smiles |-> "O",
   inchi |-> "InChI=1S/H2O/h1H2",
   casNumber |-> "7732-18-5",
   pubchemCID |-> "962",
   unii |-> "059QF0KO0R"]

CarbonDioxide ==
  [iupacName |-> "carbon dioxide",
   smiles |-> "O=C=O",
   inchi |-> "InChI=1S/CO2/c2-1-3",
   casNumber |-> "124-38-9",
   pubchemCID |-> "280",
   unii |-> "142M471B3J"]

Methane ==
  [iupacName |-> "methane",
   smiles |-> "C",
   inchi |-> "InChI=1S/CH4/h1H4",
   casNumber |-> "74-82-8",
   pubchemCID |-> "297",
   unii |-> "OP0UW79H66"]

Ethanol ==
  [iupacName |-> "ethanol",
   smiles |-> "CCO",
   inchi |-> "InChI=1S/C2H6O/c1-2-3/h3H,2H2,1H3",
   casNumber |-> "64-17-5",
   pubchemCID |-> "702",
   unii |-> "3K9958V90M"]

Benzene ==
  [iupacName |-> "benzene",
   smiles |-> "c1ccccc1",
   inchi |-> "InChI=1S/C6H6/c1-2-4-6-5-3-1/h1-6H",
   casNumber |-> "71-43-2",
   pubchemCID |-> "241",
   unii |-> "J64922108F"]

AceticAcid ==
  [iupacName |-> "acetic acid",
   smiles |-> "CC(=O)O",
   inchi |-> "InChI=1S/C2H4O2/c1-2(3)4/h1H3,(H,3,4)",
   casNumber |-> "64-19-7",
   pubchemCID |-> "176",
   unii |-> "Q40Q9N063P"]

FormicAcid ==
  [iupacName |-> "formic acid",
   smiles |-> "C(=O)O",
   inchi |-> "InChI=1S/CH2O2/c2-1-3/h1H,(H,2,3)",
   casNumber |-> "64-18-6",
   pubchemCID |-> "284",
   unii |-> "0YIW783RG1"]

Methanol ==
  [iupacName |-> "methanol",
   smiles |-> "CO",
   inchi |-> "InChI=1S/CH4O/c1-2/h2H,1H3",
   casNumber |-> "67-56-1",
   pubchemCID |-> "887",
   unii |-> "Y4S76JWI15"]

Ammonia ==
  [iupacName |-> "ammonia",
   smiles |-> "N",
   inchi |-> "InChI=1S/H3N/h1H3",
   casNumber |-> "7664-41-7",
   pubchemCID |-> "222",
   unii |-> "5138Q19F1X"]

Ethane ==
  [iupacName |-> "ethane",
   smiles |-> "CC",
   inchi |-> "InChI=1S/C2H6/c1-2/h1-2H3",
   casNumber |-> "74-84-0",
   pubchemCID |-> "6324",
   unii |-> "L99N5N533T"]

Propane ==
  [iupacName |-> "propane",
   smiles |-> "CCC",
   inchi |-> "InChI=1S/C3H8/c1-3-2/h3H2,1-2H3",
   casNumber |-> "74-98-6",
   pubchemCID |-> "6334",
   unii |-> "T75W9KEA2A"]

Butane ==
  [iupacName |-> "butane",
   smiles |-> "CCCC",
   inchi |-> "InChI=1S/C4H10/c1-3-4-2/h3-4H2,1-2H3",
   casNumber |-> "106-97-8",
   pubchemCID |-> "7843",
   unii |-> "VR7E826LM6"]

Isobutane ==
  [iupacName |-> "2-methylpropane",
   smiles |-> "CC(C)C",
   inchi |-> "InChI=1S/C4H10/c1-4(2)3/h4H,1-3H3",
   casNumber |-> "75-28-5",
   pubchemCID |-> "6344",
   unii |-> "BXN20XJN5I"]

Toluene ==
  [iupacName |-> "toluene",
   smiles |-> "Cc1ccccc1",
   inchi |-> "InChI=1S/C7H8/c1-7-5-3-2-4-6-7/h2-6H,1H3",
   casNumber |-> "108-88-3",
   pubchemCID |-> "1140",
   unii |-> "3FPU23BG52"]

Glucose ==
  [iupacName |-> "D-glucose",
   smiles |-> "C([C@@H]1[C@H]([C@@H]([C@H]([C@H](O1)O)O)O)O)O",
   inchi |-> "InChI=1S/C6H12O6/c7-1-2-3(8)4(9)5(10)6(11)12-2/h2-11H,1H2/t2-,3-,4+,5-,6+/m1/s1",
   casNumber |-> "50-99-7",
   pubchemCID |-> "5793",
   unii |-> "IY9XDZ35W2"]

Caffeine ==
  [iupacName |-> "1,3,7-trimethylpurine-2,6-dione",
   smiles |-> "CN1C=NC2=C1C(=O)N(C(=O)N2C)C",
   inchi |-> "InChI=1S/C8H10N4O2/c1-10-4-9-6-5(10)7(13)12(3)8(14)11(6)2/h4H,1-3H3",
   casNumber |-> "58-08-2",
   pubchemCID |-> "2519",
   unii |-> "3G6A5W338E"]

Aspirin ==
  [iupacName |-> "2-acetoxybenzoic acid",
   smiles |-> "CC(=O)OC1=CC=CC=C1C(=O)O",
   inchi |-> "InChI=1S/C9H8O4/c1-6(10)13-8-5-3-2-4-7(8)9(11)12/h2-5H,1H3,(H,11,12)",
   casNumber |-> "50-78-2",
   pubchemCID |-> "2244",
   unii |-> "R16CO5Y76E"]

commonCompounds ==
  <<[key |-> "water", identifiers |-> Water],
    [key |-> "h2o", identifiers |-> Water],
    [key |-> "o", identifiers |-> Water],
    [key |-> "7732-18-5", identifiers |-> Water],
    [key |-> "carbon dioxide", identifiers |-> CarbonDioxide],
    [key |-> "co2", identifiers |-> CarbonDioxide],
    [key |-> "o=c=o", identifiers |-> CarbonDioxide],
    [key |-> "124-38-9", identifiers |-> CarbonDioxide],
    [key |-> "methane", identifiers |-> Methane],
    [key |-> "ch4", identifiers |-> Methane],
    [key |-> "c", identifiers |-> Methane],
    [key |-> "74-82-8", identifiers |-> Methane],
    [key |-> "ethanol", identifiers |-> Ethanol],
    [key |-> "ethyl alcohol", identifiers |-> Ethanol],
    [key |-> "cco", identifiers |-> Ethanol],
    [key |-> "64-17-5", identifiers |-> Ethanol],
    [key |-> "benzene", identifiers |-> Benzene],
    [key |-> "c1ccccc1", identifiers |-> Benzene],
    [key |-> "71-43-2", identifiers |-> Benzene],
    [key |-> "acetic acid", identifiers |-> AceticAcid],
    [key |-> "cc(=o)o", identifiers |-> AceticAcid],
    [key |-> "64-19-7", identifiers |-> AceticAcid],
    [key |-> "formic acid", identifiers |-> FormicAcid],
    [key |-> "methanoic acid", identifiers |-> FormicAcid],
    [key |-> "c(=o)o", identifiers |-> FormicAcid],
    [key |-> "64-18-6", identifiers |-> FormicAcid],
    [key |-> "methanol", identifiers |-> Methanol],
    [key |-> "methyl alcohol", identifiers |-> Methanol],
    [key |-> "co", identifiers |-> Methanol],
    [key |-> "67-56-1", identifiers |-> Methanol],
    [key |-> "ammonia", identifiers |-> Ammonia],
    [key |-> "nh3", identifiers |-> Ammonia],
    [key |-> "n", identifiers |-> Ammonia],
    [key |-> "7664-41-7", identifiers |-> Ammonia],
    [key |-> "ethane", identifiers |-> Ethane],
    [key |-> "cc", identifiers |-> Ethane],
    [key |-> "74-84-0", identifiers |-> Ethane],
    [key |-> "propane", identifiers |-> Propane],
    [key |-> "ccc", identifiers |-> Propane],
    [key |-> "74-98-6", identifiers |-> Propane],
    [key |-> "butane", identifiers |-> Butane],
    [key |-> "cccc", identifiers |-> Butane],
    [key |-> "106-97-8", identifiers |-> Butane],
    [key |-> "isobutane", identifiers |-> Isobutane],
    [key |-> "2-methylpropane", identifiers |-> Isobutane],
    [key |-> "cc(c)c", identifiers |-> Isobutane],
    [key |-> "75-28-5", identifiers |-> Isobutane],
    [key |-> "toluene", identifiers |-> Toluene],
    [key |-> "methylbenzene", identifiers |-> Toluene],
    [key |-> "cc1ccccc1", identifiers |-> Toluene],
    [key |-> "108-88-3", identifiers |-> Toluene],
    [key |-> "glucose", identifiers |-> Glucose],
    [key |-> "d-glucose", identifiers |-> Glucose],
    [key |-> "50-99-7", identifiers |-> Glucose],
    [key |-> "caffeine", identifiers |-> Caffeine],
    [key |-> "58-08-2", identifiers |-> Caffeine],
    [key |-> "aspirin", identifiers |-> Aspirin],
    [key |-> "acetylsalicylic acid", identifiers |-> Aspirin],
    [key |-> "50-78-2", identifiers |-> Aspirin]>>

\* property names that an object literal inherits from Object.prototype: the
\* function Object, and the prototype object itself
inherited == {"constructor", "__proto__"}

\* null / undefined where an object is expected
Null == [null |-> TRUE]

\* commonCompounds[lowerValue] where the key names an inherited property: the
\* value found is not an identifier set and has none of its fields
NotIdentifiers(key) == [inherited |-> key]

\* getLocalIdentifiers: the entry under the key lowerValue, whatever the kind,
\* else the first entry whose field of the kind is lowerValue
getLocalIdentifiers(sourceType, sourceValue) ==
  LET lowerValue == trim(toLowerCase(sourceValue))
      direct == {i \in DOMAIN commonCompounds : commonCompounds[i].key = lowerValue}
      byField == {i \in DOMAIN commonCompounds :
                    /\ sourceType \in DOMAIN commonCompounds[i].identifiers
                    /\ toLowerCase(commonCompounds[i].identifiers[sourceType]) = lowerValue}
      First(S) == CHOOSE i \in S : \A j \in S : i <= j
  IN  IF direct # {} THEN commonCompounds[First(direct)].identifiers
      ELSE IF lowerValue \in inherited THEN NotIdentifiers(lowerValue)
      ELSE IF byField # {} THEN commonCompounds[First(byField)].identifiers
      ELSE Null

(***************************************************************************)
(* DATABASES and the order the orchestrator tries them in                  *)
(***************************************************************************)
DATABASES ==
  <<[name |-> "PubChem", priority |-> 10, timeout |-> 5000, retries |-> 2],
    [name |-> "NCI/CACTUS", priority |-> 6, timeout |-> 7000, retries |-> 1]>>

\* insertion of db into a sequence sorted by descending priority, after its equals
RECURSIVE InsertByPriority(_, _)
InsertByPriority(db, sorted) ==
  IF sorted = <<>> THEN <<db>>
  ELSE IF Head(sorted).priority >= db.priority
       THEN <<Head(sorted)>> \o InsertByPriority(db, Tail(sorted))
       ELSE <<db>> \o sorted

\* dbs.sort((a, b) => b.priority - a.priority)
RECURSIVE SortByPriority(_)
SortByPriority(dbs) ==
  IF dbs = <<>> THEN <<>>
  ELSE InsertByPriority(dbs[Len(dbs)], SortByPriority(SubSeq(dbs, 1, Len(dbs) - 1)))

SortedDatabases == SortByPriority(DATABASES)

DbNames == {DATABASES[i].name : i \in DOMAIN DATABASES}

(***************************************************************************)
(* The remote services: what PubChem and NCI/CACTUS hold.  Every network   *)
(* operation may also time out or fail (outcome "throw") or be answered by *)
(* an HTTP error status (outcome "notok").                                 *)
(***************************************************************************)
\* no CID: the null of getPubChemCID
NoCid == ""

\* the CID list PubChem answers a name / structure query with
PubChemCIDs(sourceValue) ==
  IF toLowerCase(sourceValue) = "acetone" THEN {"180", NoCid} ELSE {NoCid}

\* PropertyTable.Properties[0] of a CID PubChem knows
PubChemProperties(cid) ==
  IF cid = "180"
  THEN {[IUPACName |-> "propan-2-one", CanonicalSMILES |-> "CC(=O)C",
         InChI |-> "InChI=1S/C3H6O/c1-3(2)4/h1-2H3"]}
  ELSE {}

\* InformationList.Information[0].Synonym of a CID PubChem knows
PubChemSynonyms(cid) ==
  IF cid = "180" THEN {<<"acetone", "67-64-1", "1364PS73AF">>} ELSE {}

\* the text NCI/CACTUS answers a conversion with
NCIAnswers(sourceValue, to) ==
  IF toLowerCase(sourceValue) = "acetone" /\ to = "smiles" THEN {"CC(C)=O\n"}
  ELSE IF toLowerCase(sourceValue) = "acetone" /\ to = "cas" THEN {"67-64-1"}
  ELSE {"<h1>Page not found (404)</h1>"}

Throw == [kind |-> "throw"]

NotOk == [kind |-> "notok"]

Ok(body) == [kind |-> "ok", body |-> body]

\* result.includes('Page not found')
includes(s, sub) ==
  \E i \in 1..(Len(s) - Len(sub) + 1) : SubSeq(s, i, i + Len(sub) - 1) = sub

(***************************************************************************)
(* One call of lookupChemicalIdentifiers.  A call runs without interruption*)
(* up to its next await; st is the pair of the call record k and the cache.*)
(* The fields reads, writes, localQ, attempts, seen, order, writeTime,     *)
(* epoch and waits record what the call did; they do not influence it.     *)
(***************************************************************************)
ZeroPerDb == [n \in DbNames |-> 0]

NonePerDb == [n \in DbNames |-> {}]

IdleCall == [pc |-> "idle", seq |-> 0]

NewCall(seq, sourceType, sourceValue, epoch, handler) ==
  [pc |-> "run", seq |-> seq, sourceType |-> sourceType, sourceValue |-> sourceValue,
   normalizedValue |-> "", cacheKey |-> "", dbIdx |-> 0, attempt |-> 0,
   stage |-> "", conv |-> 0, cid |-> NoCid, identifiers |-> NoIdentifiers,
   result |-> Null, handler |-> handler,
   reads |-> 0, writes |-> 0, localQ |-> 0, attempts |-> ZeroPerDb,
   seen |-> NonePerDb, order |-> <<>>, writeTime |-> -1, epoch |-> epoch,
   waits |-> <<>>]

\* Return that stores the failure of a call that tried the remote sources in
\* the cache, under the key of the call
Return_CacheFailure(st, result) ==
  LET st1 == IF ~result.success /\ st.k.order # <<>>
             THEN [st EXCEPT !.cache =
                     [key \in DOMAIN st.cache \cup {st.k.cacheKey} |->
                        IF key = st.k.cacheKey
                        THEN [identifiers |-> NoIdentifiers, timestamp |-> 0,
                              source |-> "none"]
                        ELSE st.cache[key]]]
             ELSE st
  IN  [st1 EXCEPT !.k = [@ EXCEPT !.pc = "returned", !.result = result, !.stage = "",
                                  !.dbIdx = 0, !.attempt = 0, !.conv = 0, !.cid = NoCid,
                                  !.identifiers = NoIdentifiers]]

\* return result: the local variables of the call are gone
Return(st, result) ==
  [st EXCEPT !.k = [@ EXCEPT !.pc = "returned", !.result = result, !.stage = "",
                             !.dbIdx = 0, !.attempt = 0, !.conv = 0, !.cid = NoCid,
                             !.identifiers = NoIdentifiers]]

\* await of a network operation or of the backoff timer
Await(st, stage) == [st EXCEPT !.k = [@ EXCEPT !.pc = "await", !.stage = stage]]

\* CacheSet that counts the write and leaves the cache as it was
CacheSet_NoWrite(st, identifiers, source, t) ==
  [k |-> [st.k EXCEPT !.writes = @ + 1, !.writeTime = t], cache |-> st.cache]

\* identifierCache.set(cacheKey, {identifiers, timestamp: Date.now(), source})
CacheSet(st, identifiers, source, t) ==
  [k |-> [st.k EXCEPT !.writes = @ + 1, !.writeTime = t],
   cache |-> [key \in DOMAIN st.cache \cup {st.k.cacheKey} |->
                IF key = st.k.cacheKey
                THEN [identifiers |-> identifiers, timestamp |-> t, source |-> source]
                ELSE st.cache[key]]]

\* Failure that replaces the message by a fixed one
Failure_Generic(error) == [success |-> FALSE, error |-> "Lookup failed"]

Failure(error) == [success |-> FALSE, error |-> error]

\* the four conversions of lookupFromNCICACTUS
conversions ==
  <<[to |-> "smiles", target |-> "smiles"],
    [to |-> "iupac_name", target |-> "iupacName"],
    [to |-> "cas", target |-> "casNumber"],
    [to |-> "stdinchi", target |-> "inchi"]>>

\* await fetch(url, ...) against the source of the current attempt
Fetch(st, stage) == Await(st, stage)

\* the name / structure PubChem is queried with in getPubChemCID: a CAS number
\* loses its spaces and hyphens
RECURSIVE cleanCAS(_)
cleanCAS(s) ==
  IF s = "" THEN ""
  ELSE IF Head(s) \in WhiteSet \cup {"-"} THEN cleanCAS(Tail(s))
       ELSE Head(s) \o cleanCAS(Tail(s))

PubChemQuery(sourceType, sourceValue) ==
  IF sourceType = "casNumber" THEN cleanCAS(sourceValue) ELSE sourceValue

\* one attempt of lookupFromDatabase, up to the first network operation:
\* lookupFromPubChem with getPubChemCID, or lookupFromNCICACTUS
StartAttempt(st, idx, attempt) ==
  LET db == SortedDatabases[idx]
      k1 == [st.k EXCEPT !.dbIdx = idx, !.attempt = attempt,
                         !.attempts[db.name] = @ + 1,
                         !.order = IF attempt = 0 THEN Append(@, db.name) ELSE @,
                         !.identifiers = NoIdentifiers, !.cid = NoCid, !.conv = 0]
      st1 == [st EXCEPT !.k = k1]
  IN  IF db.name = "PubChem"
      THEN IF k1.sourceType = "pubchemCID"
           THEN Fetch([st1 EXCEPT !.k.cid = k1.normalizedValue], "props")
           ELSE Fetch(st1, "cid")
      ELSE Fetch([st1 EXCEPT !.k.conv = 1], "nci")

\* TryDatabases that gives up after the first source, with the error of that source
TryDatabases_FirstOnly(st, idx) ==
  IF idx > 1
  THEN Return(st, Failure(SortedDatabases[idx - 1].name \o ": lookup failed"))
  ELSE StartAttempt(st, idx, 0)

\* the for loop of the orchestrator over the sorted DATABASES, from index idx
TryDatabases(st, idx) ==
  IF idx > Len(SortedDatabases)
  THEN Return(st, Failure("Unable to find \"" \o st.k.sourceValue
                \o "\" in chemical databases. Please check the spelling or try a different identifier type."))
  ELSE StartAttempt(st, idx, 0)

\* AttemptReturned that caches the identifiers of a failed attempt as well
AttemptReturned_CacheAlways(st, res, t) ==
  LET db == SortedDatabases[st.k.dbIdx]
  IN  IF res.success /\ res.identifiers # Null
      THEN Return(CacheSet(st, res.identifiers, db.name, t),
                  [success |-> TRUE, identifiers |-> res.identifiers, source |-> db.name,
                   confidence |-> calculateConfidence(res.identifiers, st.k.sourceType)])
      ELSE TryDatabases(CacheSet(st, st.k.identifiers, db.name, t), st.k.dbIdx + 1)

\* lookupFromDatabase returned res: the orchestrator caches and returns a
\* success, and goes on to the next source otherwise
AttemptReturned(st, res, t) ==
  LET db == SortedDatabases[st.k.dbIdx]
  IN  IF res.success /\ res.identifiers # Null
      THEN Return(CacheSet(st, res.identifiers, db.name, t),
                  [success |-> TRUE, identifiers |-> res.identifiers, source |-> db.name,
                   confidence |-> calculateConfidence(res.identifiers, st.k.sourceType)])
      ELSE TryDatabases(st, st.k.dbIdx + 1)

\* setTimeout(resolve, 1000 * Math.pow(2, attempt)) against the source db
backoff(db, attempt) == [name |-> db.name, ms |-> 1000 * 2^attempt]

\* the attempt threw: the catch of lookupFromDatabase waits and retries, and
\* after the last attempt rethrows into the catch of the orchestrator
AttemptThrew(st) ==
  LET db == SortedDatabases[st.k.dbIdx]
  IN  IF st.k.attempt < db.retries
      THEN Await([st EXCEPT !.k.waits = Append(@, backoff(db, st.k.attempt))], "backoff")
      ELSE TryDatabases(st, st.k.dbIdx + 1)

\* getPubChemCID after its fetch: every failure is caught and becomes null
getPubChemCID(o) ==
  [threw |-> FALSE, value |-> IF o.kind = "ok" THEN o.body ELSE NoCid]

\* the synonym loop of getAllIdentifiersFromPubChemCID
ExtractSynonym(ids, synonym) ==
  LET Take(acc, type) ==
        IF ~Populated(acc, type) /\ VALIDATION_PATTERNS(type, synonym)
        THEN SetField(acc, type, synonym) ELSE acc
  IN  Take(Take(Take(Take(Take(ids, "casNumber"), "unii"), "ecNumber"), "eNumber"),
           "rtecsNumber")

RECURSIVE ExtractSynonyms(_, _)
ExtractSynonyms(ids, synonyms) ==
  IF synonyms = <<>> THEN ids
  ELSE ExtractSynonyms(ExtractSynonym(ids, Head(synonyms)), Tail(synonyms))

\* the properties of getAllIdentifiersFromPubChemCID
ExtractProperties(ids, props) ==
  LET Take(acc, prop, type) ==
        IF prop \in DOMAIN props /\ props[prop] # "" THEN SetField(acc, type, props[prop])
        ELSE acc
  IN  Take(Take(Take(ids, "IUPACName", "iupacName"), "CanonicalSMILES", "smiles"),
           "InChI", "inchi")

\* AfterCID that starts the attempt again, up to five times, when PubChem
\* has no CID
AfterCID_TryAgain(st, r, t) ==
  IF r.value = NoCid
  THEN IF st.k.attempt < 5 THEN StartAttempt(st, st.k.dbIdx, st.k.attempt + 1)
       ELSE AttemptReturned(st, Failure("Could not find compound in PubChem database"), t)
  ELSE Fetch([st EXCEPT !.k.cid = r.value], "props")

\* lookupFromPubChem after getPubChemCID
AfterCID(st, r, t) ==
  IF r.threw THEN AttemptThrew(st)
  ELSE IF r.value = NoCid
       THEN AttemptReturned(st, Failure("Could not find compound in PubChem database"), t)
       ELSE Fetch([st EXCEPT !.k.cid = r.value], "props")

\* AfterIdentifiers whose cache entry keeps the timestamp of the entry it replaces
AfterIdentifiers_KeepTimestamp(st, identifiers, t) ==
  LET st1 == AttemptReturned([st EXCEPT !.k.identifiers = identifiers],
                             [success |-> TRUE, identifiers |-> identifiers], t)
      key == st.k.cacheKey
  IN  [st1 EXCEPT !.cache =
         [x \in DOMAIN st1.cache |->
            IF x = key /\ key \in DOMAIN st.cache
            THEN [st1.cache[x] EXCEPT !.timestamp = st.cache[key].timestamp]
            ELSE st1.cache[x]]]

\* lookupFromPubChem after getAllIdentifiersFromPubChemCID, which catches every
\* failure and returns the identifiers collected so far
AfterIdentifiers(st, identifiers, t) ==
  AttemptReturned([st EXCEPT !.k.identifiers = identifiers],
                  [success |-> TRUE, identifiers |-> identifiers], t)

\* AfterConversions that lets the failure of lookupFromNCICACTUS escape to the caller
AfterConversions_Uncaught(st, identifiers, t) ==
  IF Cardinality(DOMAIN identifiers) = 0
  THEN Return(st, [thrown |-> "No identifiers found in NCI CACTUS database"])
  ELSE AttemptReturned(st, [success |-> TRUE, identifiers |-> identifiers], t)

\* the end of lookupFromNCICACTUS
AfterConversions(st, identifiers, t) ==
  IF Cardinality(DOMAIN identifiers) = 0
  THEN AttemptReturned(st, Failure("No identifiers found in NCI CACTUS database"), t)
  ELSE AttemptReturned(st, [success |-> TRUE, identifiers |-> identifiers], t)

\* how the remote source answered: the operation failed or timed out ("throw"),
\* the source did not know the compound ("notfound"), or it sent data ("data")
Answer(k, o) ==
  CASE o.kind = "throw" -> {"throw"}
    [] o.kind = "notok" -> {"notfound"}
    [] o.kind = "ok" /\ k.stage = "cid" ->
         IF o.body = NoCid THEN {"notfound"} ELSE {"data"}
    [] o.kind = "ok" /\ k.stage = "nci" ->
         IF o.body = "" \/ includes(o.body, "Page not found") THEN {"notfound"}
         ELSE {"data"}
    [] o.kind = "ok" /\ k.stage \in {"props", "synonyms"} -> {"data"}
    [] OTHER -> {}

\* the call st.k resumes from its await with outcome o at time t
Resumed(st, o, t) ==
  LET k == st.k
      st1 == [st EXCEPT !.k.seen[SortedDatabases[k.dbIdx].name] = @ \cup Answer(k, o)]
  IN  CASE k.stage = "cid" -> AfterCID(st1, getPubChemCID(o), t)
        [] k.stage = "props" ->
             IF o.kind = "throw" THEN AfterIdentifiers(st1, k.identifiers, t)
             ELSE IF o.kind = "notok" THEN Fetch(st1, "synonyms")
             ELSE Fetch([st1 EXCEPT !.k.identifiers = ExtractProperties(@, o.body)],
                        "synonyms")
        [] k.stage = "synonyms" ->
             IF o.kind = "throw" THEN AfterIdentifiers(st1, k.identifiers, t)
             ELSE IF o.kind = "notok"
                  THEN AfterIdentifiers(st1, SetField(k.identifiers, "pubchemCID", k.cid), t)
             ELSE AfterIdentifiers(st1, SetField(ExtractSynonyms(k.identifiers, o.body),
                                                 "pubchemCID", k.cid), t)
        [] k.stage = "nci" ->
             LET identifiers ==
                   IF o.kind = "ok" /\ o.body # "" /\ ~includes(o.body, "Page not found")
                   THEN SetField(k.identifiers, conversions[k.conv].target, trim(o.body))
                   ELSE k.identifiers
                 st2 == [st1 EXCEPT !.k.identifiers = identifiers]
             IN  IF k.conv < Len(conversions)
                 THEN Fetch([st2 EXCEPT !.k.conv = k.conv + 1], "nci")
                 ELSE AfterConversions(st2, identifiers, t)
        [] k.stage = "backoff" -> StartAttempt(st1, k.dbIdx, k.attempt + 1)

\* what the pending await of call k may resume with
Outcomes(k) ==
  CASE k.stage = "cid" ->
         {Throw, NotOk}
           \cup {Ok(c) : c \in PubChemCIDs(PubChemQuery(k.sourceType, k.normalizedValue))}
    [] k.stage = "props" -> {Throw, NotOk} \cup {Ok(p) : p \in PubChemProperties(k.cid)}
    [] k.stage = "synonyms" -> {Throw, NotOk} \cup {Ok(l) : l \in PubChemSynonyms(k.cid)}
    [] k.stage = "nci" ->
         {Throw, NotOk}
           \cup {Ok(x) : x \in NCIAnswers(k.normalizedValue, conversions[k.conv].to)}
    [] k.stage = "backoff" -> {[kind |-> "timer"]}

\* the requests the callers make
Inputs ==
  {[type |-> "casNumber", value |-> "7732-18-5"],
   [type |-> "iupacName", value |-> "xk7##"],
   [type |-> "smiles", value |-> "   "],
   [type |-> "smiles", value |-> "CCO"],
   [type |-> "pubchemCID", value |-> "999999999"],
   [type |-> "pubchemCID", value |-> "962"],
   [type |-> "pubchemCID", value |-> "CID:962"],
   [type |-> "inchi", value |-> "InChI=1S/H2O/h1H2"],
   [type |-> "inchi", value |-> "InChI=1s/H2O/h1H2"],
   [type |-> "iupacName", value |-> "Water"],
   [type |-> "iupacName", value |-> " water"],
   [type |-> "iupacName", value |-> "acetone"]}

\* The synchronous checks of lookupChemicalIdentifiers on one request.  They
\* depend on the request only, and are tabulated once for the requests made.
Checked(sourceType, sourceValue) ==
  LET normalizedValue == normalizeIdentifier(sourceType, sourceValue)
  IN  [empty |-> trim(sourceValue) = "",
       reasonable |-> isReasonableInput(sourceType, sourceValue),
       normalizedValue |-> normalizedValue,
       valid |-> validateIdentifier(sourceType, normalizedValue),
       cacheKey |-> getCacheKey(sourceType, normalizedValue),
       localResult |-> getLocalIdentifiers(sourceType, normalizedValue)]

\* the six fields of the input form
inputFields == {"iupacName", "casNumber", "pubchemCID", "unii", "inchi", "smiles"}

\* the SMILES of the quick example buttons
QuickExamples == {"CCO", "c1ccccc1", "CC(=O)O", "O=C=O", "O"}

\* what the user of the App types into a field or picks as an example
AppInputs ==
  {[type |-> "iupacName", value |-> "Water"],
   [type |-> "iupacName", value |-> "ethanol"],
   [type |-> "iupacName", value |-> "acetone"],
   [type |-> "iupacName", value |-> "xk7##"],
   [type |-> "iupacName", value |-> ""],
   [type |-> "casNumber", value |-> "7732-18"],
   [type |-> "smiles", value |-> "CCO"]}

\* the identifier sets of the local table
LocalSets == {commonCompounds[i].identifiers : i \in DOMAIN commonCompounds}

\* the requests for a compound of the local table by one of its own identifiers
TableRequests ==
  {[type |-> t, value |-> S[t]] : <<S, t>> \in {<<S, t>> \in LocalSets \X ChemicalIdentifiers : t \in DOMAIN S}}

Requests == Inputs \cup AppInputs \cup TableRequests

CheckedInputs == [i \in Requests |-> Checked(i.type, i.value)]

NoError == ""

\* ValidationError without the format check
ValidationError_NoFormatCheck(k, on) ==
  IF on.empty THEN "Empty identifier provided"
  ELSE IF ~on.reasonable
       THEN "Invalid " \o k.sourceType \o ". Please enter a valid chemical identifier."
  ELSE NoError

\* the three early returns of lookupChemicalIdentifiers: the error of a request
\* that is empty, implausible or of the wrong format
ValidationError(k, on) ==
  IF on.empty THEN "Empty identifier provided"
  ELSE IF ~on.reasonable
       THEN "Invalid " \o k.sourceType \o ". Please enter a valid chemical identifier."
  ELSE IF ~on.valid THEN "Invalid format for " \o k.sourceType \o ": " \o k.sourceValue
  ELSE NoError

\* CacheHit that never finds an entry
CacheHit_Never(cache, cacheKey, t) == FALSE

\* cached && isCacheValid(cached.timestamp)
CacheHit(cache, cacheKey, t) ==
  cacheKey \in DOMAIN cache /\ isCacheValid(cache[cacheKey].timestamp, t)

\* CachedResult that keeps the source label of the entry
CachedResult_SameSource(cached) ==
  [success |-> TRUE, identifiers |-> cached.identifiers, source |-> cached.source,
   confidence |-> ConfScale]

\* the result of a cache hit
CachedResult(cached) ==
  [success |-> TRUE, identifiers |-> cached.identifiers,
   source |-> cached.source \o " (cached)", confidence |-> ConfScale]

\* the result of a hit in the local table
LocalResult(localResult) ==
  [success |-> TRUE, identifiers |-> localResult, source |-> "Local Database",
   confidence |-> ConfScale]

\* lookupChemicalIdentifiers from its entry to its first await or its return
lookupChemicalIdentifiers(k, cache, t) ==
  LET st == [k |-> k, cache |-> cache]
      on == CheckedInputs[[type |-> k.sourceType, value |-> k.sourceValue]]
      error == ValidationError(k, on)
      st1 == [st EXCEPT !.k.normalizedValue = on.normalizedValue,
                        !.k.cacheKey = on.cacheKey, !.k.reads = @ + 1]
      st2 == [st1 EXCEPT !.k.localQ = @ + 1]
  IN  IF error # NoError THEN Return(st, Failure(error))
      ELSE IF CacheHit(cache, on.cacheKey, t)
           THEN Return(st1, CachedResult(cache[on.cacheKey]))
      ELSE IF on.localResult # Null
           THEN Return(CacheSet(st2, on.localResult, "Local Database", t),
                       LocalResult(on.localResult))
      ELSE TryDatabases(st2, 1)

(***************************************************************************)
(* The App component: its state a, and handleInputChange with performLookup*)
(* around lookupChemicalIdentifiers.  The field last records what the last *)
(* handler did and the field typed what the user did last; they do not     *)
(* influence the App.                                                      *)
(***************************************************************************)
\* sourceField === null
NoField == ""

\* lookupError === null, lookupSource === null
NoText == ""

\* the last input of the user: the field and the value entered last, and
\* whether the user has cleared the form and entered no value since
Typed(field, value, cleared) == [field |-> field, value |-> value, cleared |-> cleared]

EmptyIdentifiers == [t \in ChemicalIdentifiers |-> ""]

InitialApp ==
  [identifiers |-> EmptyIdentifiers, sourceField |-> NoField, isLookingUp |-> FALSE,
   lookupError |-> NoText, lookupSource |-> NoText, last |-> [kind |-> "none"],
   typed |-> Typed(NoField, "", FALSE)]

\* Spread that keeps the fields of prev that are populated
Spread_KeepPopulated(prev, set) ==
  [t \in DOMAIN prev \cup DOMAIN set |->
     IF t \in DOMAIN prev /\ prev[t] # "" THEN prev[t]
     ELSE IF t \in DOMAIN set THEN set[t] ELSE prev[t]]

\* {...prev, ...set}
Spread(prev, set) ==
  [t \in DOMAIN prev \cup DOMAIN set |-> IF t \in DOMAIN set THEN set[t] ELSE prev[t]]

\* Pin that leaves the field as it is
Pin_Nothing(identifiers, field, value) == identifiers

\* {...identifiers, [field]: value}
Pin(identifiers, field, value) ==
  [t \in DOMAIN identifiers \cup {field} |-> IF t = field THEN value ELSE identifiers[t]]

\* the checks of performLookup on one input: the format of the normalized
\* value and the local table entry of the raw value
CheckedApp(field, value) ==
  [valid |-> validateIdentifier(field, normalizeIdentifier(field, value)),
   foundIdentifiers |-> getLocalIdentifiers(field, value)]

CheckedAppInputs == [i \in AppInputs |-> CheckedApp(i.type, i.value)]

\* what performLookup returns without calling lookupChemicalIdentifiers
PerformedLocally(field, on) ==
  IF ~on.valid
  THEN [error |-> "Invalid " \o field \o " format. Please check your input."]
  ELSE [error |-> "", identifiers |-> on.foundIdentifiers, source |-> "Local Database"]

\* what performLookup returns once lookupChemicalIdentifiers returned result
LookedUp(result) ==
  IF result.success /\ result.identifiers # Null
  THEN [error |-> "", identifiers |-> result.identifiers,
        source |-> IF result.source # "" THEN result.source ELSE "External Database"]
  ELSE [error |-> IF result.error # "" THEN result.error ELSE "Unknown lookup error"]

\* the fields populated in prev that set holds another value for
Differing(prev, set) ==
  {t \in DOMAIN prev \cap DOMAIN set : prev[t] # "" /\ set[t] # prev[t]}

\* handleInputChange(field, value) after performLookup returned result
Settled(a, field, value, result) ==
  LET a1 == IF result.error # ""
            THEN [a EXCEPT !.lookupError = result.error,
                           !.last = [kind |-> "error", field |-> field, value |-> value]]
            ELSE [a EXCEPT !.lookupSource = result.source,
                           !.identifiers = Pin(Spread(@, result.identifiers), field, value),
                           !.last = [kind |-> "merged", field |-> field, value |-> value,
                                     set |-> result.identifiers,
                                     overwrote |-> Differing(a.identifiers,
                                                             result.identifiers) \ {field}]]
  IN  [a1 EXCEPT !.isLookingUp = FALSE]

\* the continuation of the caller of call k, which returned: the handler of
\* the App that awaits it, if any
Continued(a, k) ==
  IF k.pc = "returned" /\ k.handler # Null
  THEN Settled(a, k.handler.field, k.handler.value, LookedUp(k.result))
  ELSE a

\* the record of call k once its caller has taken the result: a call the App
\* awaited leaves nothing behind
Collected(k) ==
  IF k.pc = "returned" /\ k.handler # Null THEN [pc |-> "idle", seq |-> k.seq] ELSE k

\* Unexpired that keeps no entry
Unexpired_None(cache, t) == [key \in {} |-> Null]

\* the entries of the cache that are not expired at time t: what the loop of
\* cleanExpiredCache leaves
Unexpired(cache, t) ==
  [key \in {x \in DOMAIN cache : isCacheValid(cache[x].timestamp, t)} |-> cache[key]]

\* the number cleanExpiredCache returns: the entries its loop deleted
removed(cache, t) ==
  Cardinality(DOMAIN cache) - Cardinality(DOMAIN Unexpired(cache, t))

\* identifierCache.size
getCacheSize(cache) == Cardinality(DOMAIN cache)

(***************************************************************************)
(* The molecule parser.  A molecule is known by the function that builds   *)
(* it; a call of a parser returns a molecule, returns another value, or    *)
(* throws.                                                                 *)
(***************************************************************************)
Molecule(by) == [kind |-> "molecule", by |-> by]

Thrown(error) == [kind |-> "threw", error |-> error]

\* a value that is not a molecule: it has no atoms and no bonds
NotMolecule == [kind |-> "object"]

\* table[key] of an object literal: the own entry, an inherited property, or
\* undefined
property(table, key) ==
  IF \E e \in table : e[1] = key
  THEN [own |-> (CHOOSE e \in table : e[1] = key)[2]]
  ELSE IF key \in inherited THEN [inherited |-> key]
  ELSE Null

\* const moleculeBuilder = table[key]; if (moleculeBuilder) return moleculeBuilder();
\* the value returned or thrown, or null when the statement falls through.
\* Object() returns an empty object, and the prototype object is not callable
build(table, key) ==
  LET moleculeBuilder == property(table, key)
  IN  IF moleculeBuilder = Null THEN Null
      ELSE IF "own" \in DOMAIN moleculeBuilder THEN Molecule(moleculeBuilder.own)
      ELSE IF moleculeBuilder.inherited = "constructor" THEN NotMolecule
      ELSE Thrown("moleculeBuilder is not a function")

\* the table nameToMolecule of parseIUPACName: key and the function that builds the molecule
nameToMolecule ==
  {<<"methane", "createMethane">>, <<"ethane", "createEthane">>,
   <<"propane", "createPropane">>, <<"butane", "createButane">>,
   <<"pentane", "createPentane">>, <<"hexane", "createHexane">>,
   <<"ethene", "createEthene">>, <<"ethylene", "createEthene">>,
   <<"propene", "createPropene">>, <<"propylene", "createPropene">>,
   <<"1-butene", "createButene">>, <<"2-butene", "createButene">>,
   <<"butene", "createButene">>, <<"1-hexene", "createHexene">>,
   <<"2-hexene", "createHexene">>, <<"hexene", "createHexene">>,
   <<"isobutane", "createIsobutane">>, <<"2-methylpropane", "createIsobutane">>,
   <<"isopentane", "createIsopentane">>, <<"2-methylbutane", "createIsopentane">>,
   <<"methanol", "createMethanol">>, <<"ethanol", "createEthanol">>,
   <<"propanol", "createPropanol">>, <<"1-propanol", "createPropanol">>,
   <<"2-propanol", "createIsopropanol">>, <<"isopropanol", "createIsopropanol">>,
   <<"benzene", "createBenzene">>, <<"toluene", "createToluene">>,
   <<"methylbenzene", "createToluene">>, <<"xylene", "createXylene">>,
   <<"1,2-dimethylbenzene", "createXylene">>, <<"acetic acid", "createAceticAcid">>,
   <<"ethanoic acid", "createAceticAcid">>, <<"formic acid", "createFormicAcid">>,
   <<"methanoic acid", "createFormicAcid">>, <<"water", "createWater">>,
   <<"carbon dioxide", "createCarbonDioxide">>, <<"ammonia", "createAmmonia">>,
   <<"hydrogen", "createHydrogen">>, <<"oxygen", "createOxygen">>,
   <<"nitrogen", "createNitrogen">>}

\* the table casToMolecule of parseCASNumber: key and the function that builds the molecule
casToMolecule ==
  {<<"74-82-8", "createMethane">>, <<"74-84-0", "createEthane">>,
   <<"74-98-6", "createPropane">>, <<"106-97-8", "createButane">>,
   <<"75-28-5", "createIsobutane">>, <<"64-17-5", "createEthanol">>,
   <<"67-56-1", "createMethanol">>, <<"71-43-2", "createBenzene">>,
   <<"108-88-3", "createToluene">>, <<"64-19-7", "createAceticAcid">>,
   <<"7732-18-5", "createWater">>, <<"124-38-9", "createCarbonDioxide">>,
   <<"7664-41-7", "createAmmonia">>, <<"1333-74-0", "createHydrogen">>,
   <<"7782-44-7", "createOxygen">>, <<"7727-37-9", "createNitrogen">>}

\* the table cidToMolecule of parsePubChemCID: key and the function that builds the molecule
cidToMolecule ==
  {<<"280", "createCarbonDioxide">>, <<"962", "createWater">>,
   <<"6344", "createIsobutane">>, <<"702", "createEthanol">>,
   <<"887", "createMethanol">>, <<"241", "createBenzene">>, <<"1140", "createToluene">>,
   <<"176", "createAceticAcid">>, <<"297", "createMethane">>,
   <<"6324", "createEthane">>, <<"6334", "createPropane">>, <<"7843", "createButane">>,
   <<"222", "createAmmonia">>, <<"284", "createFormicAcid">>,
   <<"5793", "createGlucose">>, <<"2519", "createCaffeine">>,
   <<"2244", "createAspirin">>, <<"634", "createRibose">>}

\* the table inchiPatterns of parseInChI: key and the function that builds the molecule
inchiPatterns ==
  {<<"InChI=1S/CH4/h1H4", "createMethane">>,
   <<"InChI=1S/C2H6/c1-2/h1-2H3", "createEthane">>,
   <<"InChI=1S/C3H8/c1-2-3/h2H2,1,3H3", "createPropane">>,
   <<"InChI=1S/C4H10/c1-3-4-2/h3-4H2,1-2H3", "createButane">>,
   <<"InChI=1S/C2H6O/c1-2-3/h3H,2H2,1H3", "createEthanol">>,
   <<"InChI=1S/CH4O/c1-2/h2H,1H3", "createMethanol">>,
   <<"InChI=1S/C6H6/c1-2-4-6-5-3-1/h1-6H", "createBenzene">>,
   <<"InChI=1S/H2O/h1H2", "createWater">>,
   <<"InChI=1S/CO2/c2-1-3", "createCarbonDioxide">>,
   <<"InChI=1S/H3N/h1H3", "createAmmonia">>}

\* the table chemSpiderToMolecule of parseChemSpiderID: key and the function that builds the molecule
chemSpiderToMolecule ==
  {<<"6091", "createMethane">>, <<"6089", "createEthane">>, <<"6095", "createPropane">>,
   <<"6309", "createIsobutane">>, <<"682", "createEthanol">>,
   <<"864", "createMethanol">>, <<"236", "createBenzene">>, <<"1108", "createToluene">>,
   <<"171", "createAceticAcid">>, <<"937", "createWater">>,
   <<"274", "createCarbonDioxide">>, <<"217", "createAmmonia">>}

\* the table uniiToMolecule of parseUNII: key and the function that builds the molecule
uniiToMolecule ==
  {<<"OP0UW79H66", "createMethane">>, <<"L99N5N533T", "createEthane">>,
   <<"T75W9KEF2D", "createPropane">>, <<"BF27H04Q8B", "createIsobutane">>,
   <<"3K9958V90M", "createEthanol">>, <<"Y4S76JWI15", "createMethanol">>,
   <<"J64922108F", "createBenzene">>, <<"3FPU23BG52", "createToluene">>,
   <<"Q40Q9N063P", "createAceticAcid">>, <<"059QF0KO0R", "createWater">>,
   <<"142M471B3J", "createCarbonDioxide">>, <<"5138Q19F1X", "createAmmonia">>}

\* the table ecToMolecule of parseOtherIdentifiers: key and the function that builds the molecule
ecToMolecule ==
  {<<"200-812-7", "createMethane">>, <<"200-816-9", "createEthane">>,
   <<"200-827-9", "createPropane">>, <<"200-857-2", "createIsobutane">>,
   <<"200-578-6", "createEthanol">>, <<"200-659-6", "createMethanol">>,
   <<"200-753-7", "createBenzene">>}

\* the table eToMolecule of parseOtherIdentifiers: key and the function that builds the molecule
eToMolecule ==
  {<<"E290", "createCarbonDioxide">>, <<"E948", "createOxygen">>,
   <<"E941", "createNitrogen">>}

\* the table formulaToMolecule of parseByFormula: key and the function that builds the molecule
formulaToMolecule ==
  {<<"CH4", "createMethane">>, <<"C2H6", "createEthane">>, <<"C3H8", "createPropane">>,
   <<"C4H10", "createButane">>, <<"C2H6O", "createEthanol">>,
   <<"CH4O", "createMethanol">>, <<"C6H6", "createBenzene">>,
   <<"C7H8", "createToluene">>, <<"C2H4O2", "createAceticAcid">>,
   <<"H2O", "createWater">>, <<"CO2", "createCarbonDioxide">>,
   <<"NH3", "createAmmonia">>, <<"H2", "createHydrogen">>, <<"O2", "createOxygen">>,
   <<"N2", "createNitrogen">>}

\* the table patterns of parseSMILES: key and the function that builds the molecule
patterns ==
  {<<"CCO", "createEthanol">>, <<"C1CCCCC1", "createBenzene">>,
   <<"CC(=O)O", "createAceticAcid">>, <<"C(=O)O", "createFormicAcid">>,
   <<"O=C=O", "createCarbonDioxide">>, <<"O", "createWater">>, <<"CC", "createEthane">>,
   <<"CCC", "createPropane">>, <<"CCCC", "createButane">>,
   <<"C(C)(C)C", "createIsobutane">>, <<"CC(C)CC", "createIsopentane">>,
   <<"CO", "createMethanol">>, <<"CCL4", "createCarbonTetrachloride">>,
   <<"N", "createAmmonia">>, <<"C", "createMethane">>,
   <<"CN1C=NC2=C1C(=O)N(C(=O)N2C)C", "createCaffeineFromSMILES">>,
   <<"CC(=O)OC1=CC=CC=C1C(=O)O", "createAspirinFromSMILES">>,
   <<"C([C@@H]1[C@H]([C@@H]([C@H]([C@H](O1)O)O)O)O)O", "createGlucoseFromSMILES">>}
\* /^C+$/i
MatchCarbons(s) == Len(s) >= 1 /\ AllIn(s, {"C", "c"})

\* parseSMILES: the table holds the molecules themselves, so that an inherited
\* property is returned as it is
parseSMILES(smiles) ==
  LET cleanSmiles == trim(smiles)
      upperSmiles == toUpperCase(cleanSmiles)
      Found(key) == property(patterns, key)
      Value(p) == IF "own" \in DOMAIN p THEN Molecule(p.own) ELSE NotMolecule
  IN  IF Found(cleanSmiles) # Null THEN Value(Found(cleanSmiles))
      ELSE IF Found(upperSmiles) # Null THEN Value(Found(upperSmiles))
      ELSE IF MatchCarbons(cleanSmiles) THEN Molecule("createSimpleAlkane")
      ELSE Molecule("createMethane")

parseByFormula(formula) ==
  LET built == build(formulaToMolecule, formula)
  IN  IF built # Null THEN built ELSE Molecule("createMethane")

\* /InChI=1S\/([^/]+)/.exec(s): the formula of the first match, or "" if there
\* is none
formulaMatch(s) ==
  LET prefix == "InChI=1S/"
      starts == {i \in 1..(Len(s) - Len(prefix)) :
                   /\ SubSeq(s, i, i + Len(prefix) - 1) = prefix
                   /\ Ch(s, i + Len(prefix)) # "/"}
  IN  IF starts = {} THEN ""
      ELSE LET from == (CHOOSE i \in starts : \A j \in starts : i <= j) + Len(prefix)
               ends == {j \in from..Len(s) : \A x \in from..j : Ch(s, x) # "/"}
           IN  SubSeq(s, from, CHOOSE j \in ends : \A x \in ends : x <= j)

parseInChI(inchi) ==
  LET cleanInChI == trim(inchi)
      built == build(inchiPatterns, cleanInChI)
  IN  IF built # Null THEN built
      ELSE IF formulaMatch(cleanInChI) # "" THEN parseByFormula(formulaMatch(cleanInChI))
      ELSE Thrown("Cannot parse InChI: " \o inchi)

\* casNumber.replaceAll(' ', '')
RECURSIVE removeSpaces(_)
removeSpaces(s) ==
  IF s = "" THEN ""
  ELSE IF Head(s) = " " THEN removeSpaces(Tail(s))
       ELSE Head(s) \o removeSpaces(Tail(s))

parseCASNumber(casNumber) ==
  LET built == build(casToMolecule, removeSpaces(casNumber))
  IN  IF built # Null THEN built ELSE Thrown("Unknown CAS number: " \o casNumber)

\* parsePubChemCID that tries the InChI before the SMILES
parsePubChemCID_InChIFirst(cid, allIdentifiers) ==
  LET built == build(cidToMolecule, trim(cid))
  IN  IF built # Null THEN built
      ELSE IF allIdentifiers.inchi # "" THEN parseInChI(allIdentifiers.inchi)
      ELSE IF allIdentifiers.smiles # "" THEN parseSMILES(allIdentifiers.smiles)
      ELSE Thrown("Unknown PubChem CID: " \o cid
                    \o ". No SMILES or InChI available for fallback.")

parsePubChemCID(cid, allIdentifiers) ==
  LET built == build(cidToMolecule, trim(cid))
  IN  IF built # Null THEN built
      ELSE IF allIdentifiers.smiles # "" THEN parseSMILES(allIdentifiers.smiles)
      ELSE IF allIdentifiers.inchi # "" THEN parseInChI(allIdentifiers.inchi)
      ELSE Thrown("Unknown PubChem CID: " \o cid
                    \o ". No SMILES or InChI available for fallback.")

parseChemSpiderID(chemSpiderID) ==
  LET built == build(chemSpiderToMolecule, trim(chemSpiderID))
  IN  IF built # Null THEN built ELSE Thrown("Unknown ChemSpider ID: " \o chemSpiderID)

parseUNII(unii) ==
  LET built == build(uniiToMolecule, toUpperCase(trim(unii)))
  IN  IF built # Null THEN built ELSE Thrown("Unknown UNII: " \o unii)

parseOtherIdentifiers(type, value) ==
  LET built == IF type = "ecNumber" THEN build(ecToMolecule, trim(value))
               ELSE IF type = "eNumber" THEN build(eToMolecule, toUpperCase(trim(value)))
               ELSE Null
  IN  IF built # Null THEN built ELSE Molecule("createMethane")

tryPartialMatches(lowerName) ==
  IF includes(lowerName, "methyl") /\ includes(lowerName, "benzene")
  THEN Molecule("createToluene")
  ELSE IF includes(lowerName, "alcohol") \/ includes(lowerName, "ol")
  THEN Molecule("createEthanol")
  ELSE IF includes(lowerName, "acid") THEN Molecule("createAceticAcid")
  ELSE Null

tryMatchAlkene(lowerName) ==
  IF ~includes(lowerName, "ene") THEN Null
  ELSE IF includes(lowerName, "hex") THEN Molecule("createHexene")
  ELSE IF includes(lowerName, "but") THEN Molecule("createButene")
  ELSE IF includes(lowerName, "prop") THEN Molecule("createPropene")
  ELSE Molecule("createEthene")

tryMatchAlkane(lowerName) ==
  IF ~includes(lowerName, "ane") THEN Null
  ELSE IF includes(lowerName, "hex") THEN Molecule("createHexane")
  ELSE IF includes(lowerName, "pent") THEN Molecule("createPentane")
  ELSE IF includes(lowerName, "but") THEN Molecule("createButane")
  ELSE IF includes(lowerName, "prop") THEN Molecule("createPropane")
  ELSE IF includes(lowerName, "eth") THEN Molecule("createEthane")
  ELSE IF includes(lowerName, "meth") THEN Molecule("createMethane")
  ELSE Null

\* getSmikesFromIUPAC found no SMILES: PubChem does not know the name, or the
\* request failed
NoSmiles == ""

\* what getSmikesFromIUPAC may return for a name
SmilesAnswers(iupacName) ==
  IF toLowerCase(trim(iupacName)) = "acetone" THEN {NoSmiles, "CC(=O)C"} ELSE {NoSmiles}

\* parseIUPACName, with smiles the SMILES that getSmikesFromIUPAC returned
parseIUPACName(iupacName, smiles) ==
  LET lowerName == trim(toLowerCase(iupacName))
      built == build(nameToMolecule, lowerName)
  IN  IF built # Null THEN built
      ELSE IF smiles # NoSmiles THEN parseSMILES(smiles)
      ELSE IF tryPartialMatches(lowerName) # Null THEN tryPartialMatches(lowerName)
      ELSE IF tryMatchAlkene(lowerName) # Null THEN tryMatchAlkene(lowerName)
      ELSE IF tryMatchAlkane(lowerName) # Null THEN tryMatchAlkane(lowerName)
      ELSE IF Len(lowerName) > 20 \/ includes(lowerName, "lambda")
                \/ includes(lowerName, "phosphane")
      THEN Molecule("createComplexMoleculePlaceholder")
      ELSE Thrown("Unable to parse molecule \"" \o iupacName
                    \o "\". Please check the spelling or try a different identifier type (SMILES, CAS number, etc.).")

\* the switch of parseMolecule: the parser of the kind
primaryParser(type, cleanValue, allIdentifiers, smiles) ==
  CASE type = "smiles" -> parseSMILES(cleanValue)
    [] type = "iupacName" -> parseIUPACName(cleanValue, smiles)
    [] type = "casNumber" -> parseCASNumber(cleanValue)
    [] type = "pubchemCID" -> parsePubChemCID(cleanValue, allIdentifiers)
    [] type = "inchi" -> parseInChI(cleanValue)
    [] type = "chemSpider" -> parseChemSpiderID(cleanValue)
    [] type = "unii" -> parseUNII(cleanValue)
    [] type \in {"ecNumber", "eNumber", "echaInfoCard", "rtecsNumber", "compToxDashboard"} ->
         parseOtherIdentifiers(type, cleanValue)
    [] OTHER -> Thrown("Parsing for " \o type \o " is not yet implemented")

\* parseMolecule(type, value, allIdentifiers), with smiles the SMILES that
\* getSmikesFromIUPAC returns if it is called
parseMolecule(type, value, allIdentifiers, smiles) ==
  LET cleanValue == trim(value)
      primary == primaryParser(type, cleanValue, allIdentifiers, smiles)
  IN  IF cleanValue = "" THEN Thrown("Empty identifier provided")
      ELSE IF primary.kind = "threw" /\ allIdentifiers.smiles # "" /\ type # "smiles"
      THEN parseSMILES(allIdentifiers.smiles)
      ELSE primary

\* createSimpleAlkane(length): the atoms with their ids and elements and the
\* bonds between indices of the atoms array; the coordinates are left out.
\* hydrogenId is set to length before the loop and is not changed in it.
RECURSIVE addHydrogens(_, _, _, _)
addHydrogens(molecule, i, length, hydrogenId) ==
  IF i >= length THEN molecule
  ELSE LET numHydrogens == IF i = 0 \/ i = length - 1 THEN 3 ELSE 2
           atoms == [j \in 1..numHydrogens |-> [id |-> hydrogenId, element |-> "H"]]
           bonds == [j \in 1..numHydrogens |->
                       [atomIndex1 |-> i, atomIndex2 |-> hydrogenId, bondType |-> 1]]
       IN  addHydrogens([atoms |-> molecule.atoms \o atoms, bonds |-> molecule.bonds \o bonds],
                        i + 1, length, hydrogenId)

createSimpleAlkane(length) ==
  LET atoms == [n \in 1..length |-> [id |-> n - 1, element |-> "C"]]
      bonds == [n \in 1..(length - 1) |->
                  [atomIndex1 |-> n - 1, atomIndex2 |-> n, bondType |-> 1]]
      hydrogenId == length
  IN  addHydrogens([atoms |-> atoms, bonds |-> bonds], 0, length, hydrogenId)

\* bound of the exploration: the longest chain createSimpleAlkane is called for
MaxCarbons == 6

\* the values the parsers are called with
ParserValues ==
  {"962", " 962 ", "999", "constructor", "__proto__", "  ", "water", "acetone",
   "xyzzy", "2-methylhexane", "CCO", "cco", "CCCCC", "InChI=1S/H2O/h1H2",
   "InChI=1S/C3H6O/c1-3(2)4/h1-2H3", "InChI=1/H2O/h1H2", "7732-18-5", "67-64-1",
   "059qf0ko0r", "e290", "200-812-7", "937"}

\* the identifier sets passed as allIdentifiers: the SMILES and the InChI they hold
Fallbacks ==
  {[smiles |-> s, inchi |-> i] :
     s \in {"", "CCO", "xyzzy"},
     i \in {"", "InChI=1S/H2O/h1H2", "InChI=1S/C3H6O/c1-3(2)4/h1-2H3", "InChI=1/H2O/h1H2"}}

(***************************************************************************)
(* Calls of the pure functions on their own: the strings and identifier    *)
(* sets they are evaluated on                                              *)
(***************************************************************************)
\* no pure function is being evaluated
NoEval == [fn |-> "none"]

\* the strings the pure functions are evaluated on
Strings ==
  {"", " ", "0", "000", "962", " 962 ", "CID:962", "cid962", "CIDCID1", "CSIDCID1",
   "CID: 1", "CSID:17", "96a", "12345678", "123456789", "12345-67-8", "7732-18-5",
   "7732-18", "InChI=1S/H2O/h1H2", "InChI=1s/H2O/h1H2", "1S/H2O/h1H2", "inchi=1S/H2O/h1H2",
   "059QF0KO0R", "059qf0ko0r", "059QF0KO0", "059QF0KO0R1", "059-F0KO0R",
   "DTXSID::1", "dtxsid:7020001", "e100", "100", "E100a",
   "o", "c", "n", "h", "f", "cl", "br", "i", "s", "p", "ch4", "nh3", "hcl", "h2o",
   "co2", "h2s", "hf", "hbr", "hi", "O", "CCO", "xy", "abc", "He", "zzz",
   "Water", " water", "acetone", "xk7##", "##", "strngthsx"}

\* an identifier set with the fields of S, as a remote source fills them
Filled(S) == [t \in S |-> "x"]

\* the state identifiers of the App with the fields of S holding a value
Held(S) == [t \in ChemicalIdentifiers |-> IF t \in S THEN "a " \o t ELSE ""]

\* the fields currentMolecule goes through, in its order
renderFields == <<"smiles", "inchi", "iupacName", "casNumber", "pubchemCID">>

\* currentMolecule that looks at the name first
currentMolecule_NameFirst(identifiers) ==
  LET fields == <<"iupacName", "smiles", "inchi", "casNumber", "pubchemCID">>
      found == {i \in DOMAIN fields : identifiers[fields[i]] # ""}
  IN  IF found = {} THEN Null
      ELSE LET field == fields[CHOOSE i \in found : \A j \in found : i <= j]
           IN  [type |-> field, value |-> identifiers[field]]

\* currentMolecule of the App: the first field of renderFields that holds a
\* value, or null
currentMolecule(identifiers) ==
  LET found == {i \in DOMAIN renderFields : identifiers[renderFields[i]] # ""}
  IN  IF found = {} THEN Null
      ELSE LET field == renderFields[CHOOSE i \in found : \A j \in found : i <= j]
           IN  [type |-> field, value |-> identifiers[field]]

\* the values getLocalIdentifiers is called with: keys and field values of the
\* table in several spellings, and strings it does not hold
LocalValues ==
  {"water", "Water", " h2o ", "ethanol", "Ethyl Alcohol", "O", "o", "CCO", "cco",
   "7732-18-5", "64-17-5", "962", "702", "059QF0KO0R", "InChI=1S/H2O/h1H2",
   "c1ccccc1", "benzene", "acetone", "xyzzy", "constructor"}

\* the calls of the pure functions that are evaluated
PureCalls ==
  {[fn |-> f, type |-> t, value |-> v, done |-> FALSE] :
     f \in {"normalizeIdentifier", "validateIdentifier", "isReasonableInput"},
     t \in ChemicalIdentifiers, v \in Strings}
  \cup
  {[fn |-> "calculateConfidence", identifiers |-> Filled(S), sourceType |-> t,
    done |-> FALSE] : S \in SUBSET ChemicalIdentifiers, t \in ChemicalIdentifiers}
  \cup
  {[fn |-> "currentMolecule", identifiers |-> Held(S), done |-> FALSE] :
     S \in SUBSET ChemicalIdentifiers}
  \cup
  {[fn |-> "getLocalIdentifiers", type |-> t, value |-> v, done |-> FALSE] :
     t \in ChemicalIdentifiers, v \in LocalValues}
  \cup
  {[fn |-> "lookupChemicalIdentifiers", type |-> t, value |-> S[t], identifiers |-> S,
    done |-> FALSE] : <<S, t>> \in {<<S, t>> \in LocalSets \X ChemicalIdentifiers : t \in DOMAIN S}}
  \cup
  {[fn |-> "createSimpleAlkane", length |-> n, done |-> FALSE] : n \in 1..MaxCarbons}
  \cup
  {[fn |-> "parsePubChemCID", cid |-> v, allIdentifiers |-> f, done |-> FALSE] :
     v \in ParserValues, f \in Fallbacks}
  \cup
  {[fn |-> "parseMolecule", type |-> t, value |-> v, allIdentifiers |-> f,
    done |-> FALSE] : t \in ChemicalIdentifiers, v \in ParserValues, f \in Fallbacks}

(***************************************************************************)
(* The MoleculeViewer component: its props molecule and allIdentifiers, its*)
(* state molecule3D, loading and error, the timer of its effect and the    *)
(* loadMolecule calls that wait for parseMolecule.                         *)
(***************************************************************************)
\* no timer is set
NoTimer == [set |-> FALSE]

\* setTimeout(loadMolecule, 300) in the render with the props molecule and
\* allIdentifiers
Timer(molecule, allIdentifiers) ==
  [set |-> TRUE, molecule |-> molecule, allIdentifiers |-> allIdentifiers]

\* the component after its first render with the props of the initial App:
\* the effect has set its timer
InitialViewer ==
  [molecule |-> Null, allIdentifiers |-> EmptyIdentifiers,
   molecule3D |-> Null, loading |-> FALSE, error |-> NoText,
   timer |-> Timer(Null, EmptyIdentifiers), pending |-> {}, renders |-> 0]

\* !molecule || !molecule.value.trim()
NoMolecule(molecule) == molecule = Null \/ trim(molecule.value) = ""

\* parseMolecule waits for the network: the name is not in the table of
\* parseIUPACName, which then awaits getSmikesFromIUPAC
Suspends(molecule) ==
  /\ molecule.type = "iupacName"
  /\ build(nameToMolecule, trim(toLowerCase(trim(molecule.value)))) = Null

\* the try / catch / finally of loadMolecule once parseMolecule settled with result
Loaded(v, result) ==
  IF result.kind = "threw"
  THEN [v EXCEPT !.error = result.error, !.molecule3D = Null, !.loading = FALSE]
  ELSE [v EXCEPT !.molecule3D = result, !.loading = FALSE]

\* loadMolecule, called by the timer, up to the await of a parseMolecule that
\* waits for the network
loadMolecule(v) ==
  LET molecule == v.timer.molecule
      allIdentifiers == v.timer.allIdentifiers
      v1 == [v EXCEPT !.timer = NoTimer]
      v2 == [v1 EXCEPT !.loading = TRUE, !.error = NoText]
  IN  IF NoMolecule(molecule) THEN [v1 EXCEPT !.molecule3D = Null, !.error = NoText]
      ELSE IF Suspends(molecule)
      THEN [v2 EXCEPT !.pending = @ \cup {[molecule |-> molecule,
                                           allIdentifiers |-> allIdentifiers,
                                           render |-> v.renders]}]
      ELSE Loaded(v2, parseMolecule(molecule.type, molecule.value, allIdentifiers, NoSmiles))

\* what the component renders
Shown(v) ==
  IF NoMolecule(v.molecule) THEN [view |-> "placeholder"]
  ELSE IF v.loading THEN [view |-> "loading"]
  ELSE IF v.error # NoText THEN [view |-> "error", error |-> v.error]
  ELSE IF v.molecule3D = Null THEN [view |-> "no structure"]
  ELSE [view |-> "structure", molecule3D |-> v.molecule3D]

\* the identifiers the App passes to the viewer: none, a name typed in that is
\* not resolved, and the set of water with the name pinned
ViewerIdentifiers ==
  {EmptyIdentifiers,
   Pin(EmptyIdentifiers, "iupacName", "acetone"),
   Pin(EmptyIdentifiers, "iupacName", "xyzzy"),
   Pin(EmptyIdentifiers, "iupacName", "benzene"),
   Pin(Spread(EmptyIdentifiers, Water), "iupacName", "Water")}

(***************************************************************************)
(* State                                                                   *)
(***************************************************************************)
VARIABLES
  cache,   \* identifierCache: cache key -> [identifiers, timestamp, source]
  now,     \* Date.now()
  calls,   \* the calls of lookupChemicalIdentifiers: the pending ones and the latest returned
  ncalls,  \* number of calls started so far
  epoch,   \* number of clearIdentifierCache() calls so far
  app,     \* the state of the App component
  eval,    \* a call of one of the pure functions, with its result once it returned
  viewer   \* the state of the MoleculeViewer component

vars == <<cache, now, calls, ncalls, epoch, app, eval, viewer>>

\* bounds of the exploration
MaxCalls == 2

MaxTicks == 2

MaxClears == 1

ClockStep == CACHE_DURATION \div 2

Slots == {1, 2}

EmptyCache == [key \in {} |-> Null]

Init ==
  /\ cache = EmptyCache
  /\ now = 0
  /\ calls = [c \in Slots |-> IdleCall]
  /\ ncalls = 0
  /\ epoch = 0
  /\ app = InitialApp
  /\ eval = NoEval
  /\ viewer = InitialViewer

Pending == {c \in Slots : calls[c].pc = "await"}

\* the slot a new call is recorded in: a free one, the oldest call first
FreeSlot ==
  CHOOSE c \in Slots \ Pending :
    \A d \in Slots \ Pending : calls[c].seq < calls[d].seq \/ (calls[c].seq = calls[d].seq /\ c <= d)

\* the call started last
Latest == CHOOSE c \in Slots : \A d \in Slots : calls[d].seq <= calls[c].seq

(***************************************************************************)
(* Actions                                                                 *)
(***************************************************************************)
\* a caller invokes lookupChemicalIdentifiers(type, value) and awaits it; the
\* callers of this specification make one call at a time
Call(type, value) ==
  /\ ncalls < MaxCalls
  /\ Pending = {}
  /\ LET st == lookupChemicalIdentifiers(
                 NewCall(ncalls + 1, type, value, epoch, Null), cache, now)
     IN  /\ calls' = [calls EXCEPT ![FreeSlot] = st.k]
         /\ cache' = st.cache
  /\ ncalls' = ncalls + 1
  /\ UNCHANGED <<now, epoch, app, eval, viewer>>

\* Resume in which a call the App no longer waits for stores no identifiers
Resume_DropAbandoned(c) ==
  /\ calls[c].pc = "await"
  /\ \E o \in Outcomes(calls[c]) :
       LET st == Resumed([k |-> calls[c], cache |-> cache], o, now)
           dropped == calls[c].handler # Null
                        /\ app.identifiers[calls[c].handler.field] # calls[c].handler.value
       IN  /\ calls' = [calls EXCEPT ![c] = Collected(st.k)]
           /\ cache' = IF dropped
                       THEN [x \in DOMAIN st.cache |->
                               IF x \in DOMAIN cache /\ cache[x] = st.cache[x] THEN cache[x]
                               ELSE [st.cache[x] EXCEPT !.identifiers = NoIdentifiers]]
                       ELSE st.cache
           /\ app' = Continued(app, st.k)
  /\ UNCHANGED <<now, ncalls, epoch, eval, viewer>>

\* the pending await of call c completes and the call runs to its next await
\* or to its return
Resume(c) ==
  /\ calls[c].pc = "await"
  /\ \E o \in Outcomes(calls[c]) :
       LET st == Resumed([k |-> calls[c], cache |-> cache], o, now)
       IN  /\ calls' = [calls EXCEPT ![c] = Collected(st.k)]
           /\ cache' = st.cache
           /\ app' = Continued(app, st.k)
  /\ UNCHANGED <<now, ncalls, epoch, eval, viewer>>

\* time passes
Tick ==
  /\ now < MaxTicks * ClockStep
  /\ now' = now + ClockStep
  /\ UNCHANGED <<cache, calls, ncalls, epoch, app, eval, viewer>>

cleanExpiredCache ==
  /\ cache' = Unexpired(cache, now)
  /\ UNCHANGED <<now, calls, ncalls, epoch, app, eval, viewer>>

clearIdentifierCache ==
  /\ epoch < MaxClears
  /\ cache' = EmptyCache
  /\ epoch' = epoch + 1
  /\ UNCHANGED <<now, calls, ncalls, app, eval, viewer>>

Next ==
  \/ \E i \in Inputs : Call(i.type, i.value)
  \/ \E c \in Slots : Resume(c)
  \/ Tick
  \/ cleanExpiredCache
  \/ clearIdentifierCache

Spec == Init /\ [][Next]_vars

\* the requests of callers that do not wait for one another
ConcurrentInputs ==
  {[type |-> "iupacName", value |-> "acetone"],
   [type |-> "pubchemCID", value |-> "999999999"],
   [type |-> "iupacName", value |-> "Water"]}

\* a caller invokes lookupChemicalIdentifiers(type, value) while other calls
\* may be waiting for their network operations
Start(type, value) ==
  /\ ncalls < MaxCalls
  /\ Slots \ Pending # {}
  /\ LET st == lookupChemicalIdentifiers(
                 NewCall(ncalls + 1, type, value, epoch, Null), cache, now)
     IN  /\ calls' = [calls EXCEPT ![FreeSlot] = st.k]
         /\ cache' = st.cache
  /\ ncalls' = ncalls + 1
  /\ UNCHANGED <<now, epoch, app, eval, viewer>>

NextConcurrent ==
  \/ \E i \in ConcurrentInputs : Start(i.type, i.value)
  \/ \E c \in Slots : Resume(c)
  \/ Tick

SpecConcurrent == Init /\ [][NextConcurrent]_vars

\* every network operation completes or is aborted by its timeout: a call that
\* waits is resumed in the end
NextLive ==
  \/ \E i \in ConcurrentInputs : Start(i.type, i.value)
  \/ \E c \in Slots : Resume(c)

SpecLive == Init /\ [][NextLive]_vars /\ \A c \in Slots : WF_vars(Resume(c))

\* the user may change the field to value: by typing into an input that is not
\* read-only, or with a quick example button, which a lookup disables
Editable(field, value) ==
  \/ /\ field \in inputFields
     /\ app.sourceField \in {NoField, field}
     /\ app.identifiers[field] # value
  \/ /\ field = "smiles" /\ value \in QuickExamples
     /\ ~app.isLookingUp

\* handleInputChange(field, value), up to the first await that does not
\* complete at once, with cleanExpiredCache and performLookup
handleInputChange(field, value) ==
  LET a0 == [app EXCEPT !.lookupError = NoText, !.lookupSource = NoText]
      a1 == [a0 EXCEPT !.sourceField = field, !.identifiers[field] = value,
                       !.isLookingUp = TRUE, !.typed = Typed(field, value, FALSE),
                       !.last = [kind |-> "started", field |-> field, value |-> value]]
      on == CheckedAppInputs[[type |-> field, value |-> value]]
  IN  /\ Editable(field, value)
      /\ IF trim(value) = ""
         THEN /\ app' = IF field = app.sourceField
                        THEN [a0 EXCEPT !.identifiers = EmptyIdentifiers,
                                        !.sourceField = NoField,
                                        !.last = [kind |-> "emptied"],
                                        !.typed = Typed(field, value, TRUE)]
                        ELSE [a0 EXCEPT !.identifiers[field] = "",
                                        !.last = [kind |-> "emptied"],
                                        !.typed = Typed(field, value, @.cleared)]
              /\ UNCHANGED <<cache, calls, ncalls>>
         ELSE IF ~on.valid \/ on.foundIdentifiers # Null
         THEN /\ app' = Settled(a1, field, value, PerformedLocally(field, on))
              /\ cache' = Unexpired(cache, now)
              /\ UNCHANGED <<calls, ncalls>>
         ELSE /\ ncalls < MaxCalls
              /\ Slots \ Pending # {}
              /\ LET st == lookupChemicalIdentifiers(
                             NewCall(ncalls + 1, field, value, epoch,
                                     [field |-> field, value |-> value]),
                             Unexpired(cache, now), now)
                 IN  /\ calls' = [calls EXCEPT ![FreeSlot] = Collected(st.k)]
                     /\ cache' = st.cache
                     /\ app' = Continued(a1, st.k)
              /\ ncalls' = ncalls + 1
      /\ UNCHANGED <<now, epoch, eval, viewer>>

handleClearAll ==
  /\ app' = [app EXCEPT !.identifiers = EmptyIdentifiers, !.sourceField = NoField,
                        !.lookupError = NoText, !.lookupSource = NoText,
                        !.last = [kind |-> "cleared"],
                        !.typed = Typed(NoField, "", TRUE)]
  /\ UNCHANGED <<cache, now, calls, ncalls, epoch, eval, viewer>>

\* the pure functions called on their own, each returning its value
InitPure ==
  /\ cache = EmptyCache
  /\ now = 0
  /\ calls = [c \in Slots |-> IdleCall]
  /\ ncalls = 0
  /\ epoch = 0
  /\ app = InitialApp
  /\ eval \in PureCalls
  /\ viewer = InitialViewer

\* normalizeIdentifier(type, value), and normalizeIdentifier of what it returned
CallNormalizeIdentifier ==
  /\ eval.fn = "normalizeIdentifier" /\ ~eval.done
  /\ eval' = [fn |-> eval.fn, type |-> eval.type, value |-> eval.value, done |-> TRUE,
              out |-> normalizeIdentifier(eval.type, eval.value),
              again |-> normalizeIdentifier(eval.type,
                                            normalizeIdentifier(eval.type, eval.value))]
  /\ UNCHANGED <<cache, now, calls, ncalls, epoch, app, viewer>>

CallValidateIdentifier ==
  /\ eval.fn = "validateIdentifier" /\ ~eval.done
  /\ eval' = [fn |-> eval.fn, type |-> eval.type, value |-> eval.value, done |-> TRUE,
              out |-> validateIdentifier(eval.type, eval.value)]
  /\ UNCHANGED <<cache, now, calls, ncalls, epoch, app, viewer>>

CallIsReasonableInput ==
  /\ eval.fn = "isReasonableInput" /\ ~eval.done
  /\ eval' = [fn |-> eval.fn, type |-> eval.type, value |-> eval.value, done |-> TRUE,
              out |-> isReasonableInput(eval.type, eval.value)]
  /\ UNCHANGED <<cache, now, calls, ncalls, epoch, app, viewer>>

CallCalculateConfidence ==
  /\ eval.fn = "calculateConfidence" /\ ~eval.done
  /\ eval' = [fn |-> eval.fn, identifiers |-> eval.identifiers,
              sourceType |-> eval.sourceType, done |-> TRUE,
              out |-> calculateConfidence(eval.identifiers, eval.sourceType)]
  /\ UNCHANGED <<cache, now, calls, ncalls, epoch, app, viewer>>

CallGetLocalIdentifiers ==
  /\ eval.fn = "getLocalIdentifiers" /\ ~eval.done
  /\ eval' = [fn |-> eval.fn, type |-> eval.type, value |-> eval.value, done |-> TRUE,
              out |-> getLocalIdentifiers(eval.type, eval.value)]
  /\ UNCHANGED <<cache, now, calls, ncalls, epoch, app, viewer>>

\* lookupChemicalIdentifiers(type, value) on an empty cache, up to its return or
\* its first await
CallLookupChemicalIdentifiers ==
  /\ eval.fn = "lookupChemicalIdentifiers" /\ ~eval.done
  /\ LET st == lookupChemicalIdentifiers(NewCall(1, eval.type, eval.value, 0, Null),
                                        EmptyCache, 0)
     IN  eval' = [fn |-> eval.fn, type |-> eval.type, value |-> eval.value,
                  identifiers |-> eval.identifiers, done |-> TRUE,
                  pc |-> st.k.pc, out |-> st.k.result, cache |-> st.cache]
  /\ UNCHANGED <<cache, now, calls, ncalls, epoch, app, viewer>>

\* the App computes currentMolecule from its identifiers
CallCurrentMolecule ==
  /\ eval.fn = "currentMolecule" /\ ~eval.done
  /\ eval' = [fn |-> eval.fn, identifiers |-> eval.identifiers, done |-> TRUE,
              out |-> currentMolecule(eval.identifiers)]
  /\ UNCHANGED <<cache, now, calls, ncalls, epoch, app, viewer>>

CallCreateSimpleAlkane ==
  /\ eval.fn = "createSimpleAlkane" /\ ~eval.done
  /\ eval' = [fn |-> eval.fn, length |-> eval.length, done |-> TRUE,
              out |-> createSimpleAlkane(eval.length)]
  /\ UNCHANGED <<cache, now, calls, ncalls, epoch, app, viewer>>

CallParsePubChemCID ==
  /\ eval.fn = "parsePubChemCID" /\ ~eval.done
  /\ eval' = [fn |-> eval.fn, cid |-> eval.cid, allIdentifiers |-> eval.allIdentifiers,
              done |-> TRUE, out |-> parsePubChemCID(eval.cid, eval.allIdentifiers)]
  /\ UNCHANGED <<cache, now, calls, ncalls, epoch, app, viewer>>

\* parseMolecule(type, value, allIdentifiers) settles, whatever PubChem
\* answers to getSmikesFromIUPAC
CallParseMolecule ==
  /\ eval.fn = "parseMolecule" /\ ~eval.done
  /\ \E smiles \in SmilesAnswers(eval.value) :
       eval' = [fn |-> eval.fn, type |-> eval.type, value |-> eval.value,
                allIdentifiers |-> eval.allIdentifiers, done |-> TRUE,
                out |-> parseMolecule(eval.type, eval.value, eval.allIdentifiers, smiles)]
  /\ UNCHANGED <<cache, now, calls, ncalls, epoch, app, viewer>>

NextPure ==
  \/ CallNormalizeIdentifier
  \/ CallValidateIdentifier
  \/ CallIsReasonableInput
  \/ CallCalculateConfidence
  \/ CallGetLocalIdentifiers
  \/ CallLookupChemicalIdentifiers
  \/ CallCurrentMolecule
  \/ CallCreateSimpleAlkane
  \/ CallParsePubChemCID
  \/ CallParseMolecule

SpecPure == InitPure /\ [][NextPure]_vars

NextApp ==
  \/ \E i \in AppInputs : handleInputChange(i.type, i.value)
  \/ \E c \in Slots : Resume(c)
  \/ Tick
  \/ handleClearAll

SpecApp == Init /\ [][NextApp]_vars

\* bound of the exploration: the renders of the viewer with new props
MaxRenders == 3

\* the App renders the viewer with molecule = currentMolecule(identifiers) and
\* allIdentifiers = identifiers: the cleanup of the effect clears the timer
\* and the effect sets a new one
Render(identifiers) ==
  /\ viewer.renders < MaxRenders
  /\ viewer' = [viewer EXCEPT !.molecule = currentMolecule(identifiers),
                              !.allIdentifiers = identifiers,
                              !.timer = Timer(currentMolecule(identifiers), identifiers),
                              !.renders = @ + 1]
  /\ UNCHANGED <<cache, now, calls, ncalls, epoch, app, eval>>

\* the timer of the effect fires after 300 ms and calls loadMolecule
TimerFires ==
  /\ viewer.timer.set
  /\ viewer' = loadMolecule(viewer)
  /\ UNCHANGED <<cache, now, calls, ncalls, epoch, app, eval>>

\* the request of getSmikesFromIUPAC of a waiting loadMolecule is answered, and
\* parseMolecule settles
ParseSettles ==
  /\ \E p \in viewer.pending : \E smiles \in SmilesAnswers(p.molecule.value) :
       viewer' = Loaded([viewer EXCEPT !.pending = @ \ {p}],
                        parseMolecule(p.molecule.type, p.molecule.value,
                                      p.allIdentifiers, smiles))
  /\ UNCHANGED <<cache, now, calls, ncalls, epoch, app, eval>>

NextViewer ==
  \/ \E identifiers \in ViewerIdentifiers : Render(identifiers)
  \/ TimerFires
  \/ ParseSettles

SpecViewer == Init /\ [][NextViewer]_vars

(***************************************************************************)
(* Vocabulary of the properties                                            *)
(***************************************************************************)
\* the tabulated checks of the request of call k
On(k) == CheckedInputs[[type |-> k.sourceType, value |-> k.sourceValue]]

\* the request of call k is empty, implausible or of the wrong format
Invalid(k) == On(k).empty \/ ~On(k).reasonable \/ ~On(k).valid

Started == {c \in Slots : calls[c].pc # "idle"}

Returned == {c \in Slots : calls[c].pc = "returned"}

\* this step is the invocation of lookupChemicalIdentifiers; New is the call
\* it starts and Prev the call made before it
Called == ncalls' = ncalls + 1

New == calls'[FreeSlot]

Prev == calls[Latest]

Retries(name) == DATABASES[CHOOSE i \in DOMAIN DATABASES : DATABASES[i].name = name].retries

PopulatedFields(identifiers) == {t \in DOMAIN identifiers : identifiers[t] # ""}

\* C1: a request that is empty, implausible or of the wrong format returns
\* success = false without reading or writing the cache, without querying the
\* local table and without any remote attempt, and leaves the cache as it was.
C1_RejectedWithoutEffects ==
  [][(Called /\ Invalid(New)) =>
       /\ New.pc = "returned" /\ ~New.result.success
       /\ New.reads = 0 /\ New.writes = 0 /\ New.localQ = 0
       /\ New.attempts = ZeroPerDb /\ New.order = <<>>
       /\ cache' = cache]_vars

\* a request of a plausible shape and a wrong format was rejected while the
\* cache held entries
C1_Witness ==
  \E c \in Returned :
    /\ On(calls[c]).reasonable /\ ~On(calls[c]).valid
    /\ ~calls[c].result.success /\ calls[c].reads = 0
    /\ DOMAIN cache # {}

\* C2: when a validated request finds an unexpired cache entry or a local
\* table entry, it returns without any remote attempt, writes the cache at
\* most once and touches no other cache slot.
C2_NoRemoteAfterHit ==
  [][(/\ Called /\ ~Invalid(New)
      /\ \/ /\ On(New).cacheKey \in DOMAIN cache
            /\ isCacheValid(cache[On(New).cacheKey].timestamp, now)
         \/ On(New).localResult # Null) =>
       /\ New.pc = "returned" /\ New.result.success
       /\ New.attempts = ZeroPerDb /\ New.order = <<>>
       /\ New.writes <= 1
       /\ DOMAIN cache' \subseteq DOMAIN cache \cup {On(New).cacheKey}
       /\ \A key \in DOMAIN cache : key # On(New).cacheKey => cache'[key] = cache[key]]_vars

\* a request for a compound only a remote source knows was served from the
\* cache, without a remote attempt
C2_Witness ==
  \E c \in Returned :
    /\ calls[c].result.success
    /\ calls[c].result.source = "PubChem (cached)"
    /\ calls[c].attempts = ZeroPerDb /\ calls[c].writes = 0

\* the same kind and the same normalized value, compared case-insensitively
SameKey(k, l) ==
  /\ k.sourceType = l.sourceType
  /\ toLowerCase(On(k).normalizedValue) = toLowerCase(On(l).normalizedValue)

\* this step starts the call New right after the call Prev, which succeeded
\* and wrote the cache less than CACHE_DURATION ago under the key of New, and
\* the cache was not cleared since Prev started
CalledAgainWithinTTL ==
  /\ Called
  /\ Prev.pc = "returned" /\ Prev.result.success
  /\ Prev.writeTime >= 0 /\ now - Prev.writeTime < CACHE_DURATION
  /\ SameKey(Prev, New)
  /\ New.epoch = Prev.epoch

\* the cached answer to New: the set of Prev under the source of Prev followed
\* by " (cached)", with confidence 1.0
AnsweredFromPrev ==
  /\ New.pc = "returned"
  /\ New.result = [success |-> TRUE, identifiers |-> Prev.result.identifiers,
                   source |-> Prev.result.source \o " (cached)", confidence |-> ConfScale]

\* C3 as stated: a call that follows a successful call of the same kind and
\* the same normalized value (case-insensitively) less than one hour after
\* its cache write returns the first call's set, its source followed by
\* " (cached)" and confidence 1.0.
C3_Original == [][CalledAgainWithinTTL => AnsweredFromPrev]_vars

\* C3: a call that passes validation and follows a successful call of the same
\* kind and the same normalized value (case-insensitively) less than one hour
\* after its cache write, the cache not cleared in between, returns the first
\* call's set, its source followed by " (cached)" and confidence 1.0.
C3_CachedWithinTTL == [][(CalledAgainWithinTTL /\ ~Invalid(New)) => AnsweredFromPrev]_vars

\* a remote answer of confidence below 1.0 was served again from the cache with
\* confidence 1.0
C3_Witness ==
  \E c, d \in Returned :
    /\ calls[d].seq = calls[c].seq + 1
    /\ SameKey(calls[c], calls[d])
    /\ calls[c].result.success /\ calls[c].writeTime >= 0
    /\ calls[c].result.confidence < ConfScale
    /\ calls[d].result.success
    /\ calls[d].result.identifiers = calls[c].result.identifiers
    /\ calls[d].result.source = calls[c].result.source \o " (cached)"
    /\ calls[d].result.confidence = ConfScale

\* C4: a validated request that misses the cache and has an entry in the local
\* table writes that entry into the cache under its key with source
\* "Local Database" and returns it with source "Local Database" and confidence
\* 1.0; casNumber "7732-18-5" is answered so with smiles "O".
C4_LocalHitCached ==
  [][(/\ Called /\ ~Invalid(New)
      /\ ~(/\ On(New).cacheKey \in DOMAIN cache
           /\ isCacheValid(cache[On(New).cacheKey].timestamp, now))
      /\ On(New).localResult # Null) =>
       /\ New.pc = "returned"
       /\ New.result = [success |-> TRUE, identifiers |-> On(New).localResult,
                        source |-> "Local Database", confidence |-> ConfScale]
       /\ On(New).cacheKey \in DOMAIN cache'
       /\ cache'[On(New).cacheKey] = [identifiers |-> On(New).localResult,
                                      timestamp |-> now, source |-> "Local Database"]
       /\ (New.sourceType = "casNumber" /\ New.sourceValue = "7732-18-5") =>
            New.result.identifiers.smiles = "O"]_vars

\* casNumber "7732-18-5" was answered from the local table and is in the cache
C4_Witness ==
  \E c \in Returned :
    /\ calls[c].sourceType = "casNumber" /\ calls[c].sourceValue = "7732-18-5"
    /\ calls[c].result.success /\ calls[c].result.source = "Local Database"
    /\ calls[c].result.identifiers.smiles = "O"
    /\ calls[c].writes = 1
    /\ "casNumber:7732-18-5" \in DOMAIN cache
    /\ cache["casNumber:7732-18-5"].source = "Local Database"

\* the names of the sources in the order of their priority, up to the n-th
PriorityOrder(n) == [i \in 1..n |-> SortedDatabases[i].name]

\* the call k is done with the source name: it went on to another source or
\* returned
Finished(k, name) ==
  /\ k.attempts[name] > 0
  /\ k.pc = "returned" \/ SortedDatabases[k.dbIdx].name # name

\* every network operation of call k against the source name timed out or
\* failed at transport level
AllThrew(k, name) == k.seen[name] = {"throw"}

\* C5 as stated: the sources are attempted in descending priority, and the
\* lower one only after the higher one, failing, has used all its retries.
C5_Original ==
  \A c \in Started :
    LET k == calls[c]
    IN  /\ k.order = PriorityOrder(Len(k.order))
        /\ (k.attempts["NCI/CACTUS"] > 0 /\ AllThrew(k, "PubChem")) =>
             k.attempts["PubChem"] = Retries("PubChem") + 1

\* C6 as stated: a source whose every network operation timed out or failed
\* is attempted exactly retries + 1 times before the call moves on, and no
\* source is attempted more than retries + 1 times.
C6_Original ==
  \A c \in Started : \A name \in DbNames :
    LET k == calls[c]
    IN  /\ k.attempts[name] <= Retries(name) + 1
        /\ (Finished(k, name) /\ AllThrew(k, name)) =>
             k.attempts[name] = Retries(name) + 1

\* C7 as stated: a successful result carries an identifier set with at least
\* one populated field.
C7_Original ==
  \A c \in Returned :
    calls[c].result.success => PopulatedFields(calls[c].result.identifiers) # {}

\* C8 as stated: a validated request that has no local table entry and that
\* every remote query answered with not-found returns success = false with the
\* generic message.
C8_Original ==
  \A c \in Returned :
    LET k == calls[c]
    IN  (/\ ~Invalid(k) /\ On(k).localResult = Null
         /\ k.order # <<>>
         /\ \A name \in DbNames : k.seen[name] \subseteq {"notfound"}) =>
          /\ ~k.result.success
          /\ k.result.error = "Unable to find \"" \o k.sourceValue
               \o "\" in chemical databases. Please check the spelling or try a different identifier type."

\* this step of the App merges the identifier set app'.last.set, resolved for
\* the input app'.last.value of the field app'.last.field, into its identifiers
MergedStep == app'.last.kind = "merged" /\ app' # app

C10_Original ==
  [][MergedStep =>
       \A t \in ChemicalIdentifiers \ {app'.last.field} :
         app.identifiers[t] # "" => app'.identifiers[t] = app.identifiers[t]]_vars

\* C10: a merge gives every field of the resolved set the value of the set,
\* populated before or not, and leaves the fields the set does not hold as
\* they are, apart from the field of the request.
C10_MergeOverwrites ==
  [][MergedStep =>
       \A t \in ChemicalIdentifiers \ {app'.last.field} :
         app'.identifiers[t] = IF t \in DOMAIN app'.last.set THEN app'.last.set[t]
                               ELSE app.identifiers[t]]_vars

\* a merge replaced the populated smiles field by the one of the resolved set
C10_Witness ==
  /\ app.last.kind = "merged"
  /\ "smiles" \in app.last.overwrote
  /\ app.identifiers["smiles"] = app.last.set["smiles"]

\* the pure function fn has returned
Evaluated(fn) == eval.fn = fn /\ eval.done

endsWith(s, suffix) ==
  Len(s) >= Len(suffix) /\ SubSeq(s, Len(s) - Len(suffix) + 1, Len(s)) = suffix

\* the call k was answered from the cache
ServedFromCache(k) ==
  k.pc = "returned" /\ k.result.success /\ endsWith(k.result.source, " (cached)")

\* C11: a validated lookup that finds an entry under its key written less than
\* one hour ago returns exactly the identifier set of the entry; when the entry
\* is one hour old or older the lookup goes on as on a miss and the entry is
\* not returned, although nothing has swept it.
C11_CacheRoundTrip ==
  [][(Called /\ ~Invalid(New) /\ On(New).cacheKey \in DOMAIN cache) =>
       LET entry == cache[On(New).cacheKey]
       IN  IF now - entry.timestamp < CACHE_DURATION
           THEN /\ ServedFromCache(New)
                /\ New.result.identifiers = entry.identifiers
                /\ cache' = cache
           ELSE /\ ~ServedFromCache(New)
                /\ New.localQ = 1]_vars

\* a call queries the remote sources while the cache still holds the entry of
\* its key, one hour old
C11_Witness ==
  \E c \in Pending :
    /\ calls[c].cacheKey \in DOMAIN cache
    /\ now - cache[calls[c].cacheKey].timestamp >= CACHE_DURATION
    /\ calls[c].reads = 1 /\ calls[c].order # <<>>

\* requests of different kinds have different cache keys, whatever their values
KindsApart ==
  LET keys == [t \in ChemicalIdentifiers |-> {getCacheKey(t, v) : v \in Strings}]
  IN  \A t1, t2 \in ChemicalIdentifiers : t1 # t2 => keys[t1] \cap keys[t2] = {}

\* the call New follows the call Prev, has its kind and a normalized value
\* that differs from the one of Prev at most in letter case, and the entry
\* Prev wrote is still in the cache and less than one hour old
SameSlotCalled ==
  /\ Called /\ Prev.pc = "returned" /\ ~Invalid(Prev)
  /\ SameKey(Prev, New)
  /\ Prev.writeTime >= 0 /\ New.epoch = Prev.epoch
  /\ Prev.cacheKey \in DOMAIN cache
  /\ cache[Prev.cacheKey].timestamp = Prev.writeTime
  /\ now - Prev.writeTime < CACHE_DURATION

\* the call New is served the entry of Prev
ServedEntryOfPrev ==
  /\ ServedFromCache(New)
  /\ New.result.identifiers = cache[Prev.cacheKey].identifiers
  /\ New.result.source = cache[Prev.cacheKey].source \o " (cached)"

\* calls of different kinds use different cache slots
DifferentKindsApart ==
  (/\ Called /\ Prev.pc = "returned" /\ ~Invalid(Prev) /\ ~Invalid(New)
   /\ New.sourceType # Prev.sourceType) => New.cacheKey # Prev.cacheKey

\* C12 as stated: a request whose normalized value differs from the one of the
\* request before it only in letter case is served the entry of that request,
\* and requests of different kinds never share a slot.
C12_Original ==
  [][/\ SameSlotCalled => ServedEntryOfPrev
     /\ DifferentKindsApart
     /\ Called => KindsApart]_vars

\* C12: the cache key is kind:normalizedValue with the value lower-cased: a
\* request that passes validation and whose normalized value differs from the
\* one of the request before it only in letter case is served the entry of
\* that request, and requests of different kinds never share a slot.
C12_CaseInsensitiveKey ==
  [][/\ (SameSlotCalled /\ ~Invalid(New)) => ServedEntryOfPrev
     /\ DifferentKindsApart
     /\ Called => KindsApart]_vars

\* a request was served the entry written for a value of another letter case
C12_Witness ==
  \E c, d \in Returned :
    /\ calls[d].seq = calls[c].seq + 1
    /\ SameKey(calls[c], calls[d])
    /\ On(calls[c]).normalizedValue # On(calls[d]).normalizedValue
    /\ calls[c].writes = 1
    /\ ServedFromCache(calls[d])
    /\ calls[d].result.identifiers = calls[c].result.identifiers

\* this step is a cleanExpiredCache() that deleted something
SweepStep == cache' # cache /\ UNCHANGED <<now, calls, ncalls, epoch>>

\* C13: cleanExpiredCache deletes exactly the entries one hour old or older,
\* returns their number and leaves the other entries as they are, so that
\* getCacheSize is then the number of unexpired entries; after
\* clearIdentifierCache getCacheSize is 0 and a lookup is a cache miss.
C13_SweepAndClear ==
  [][/\ SweepStep =>
          LET unexpired == {key \in DOMAIN cache : now - cache[key].timestamp < CACHE_DURATION}
          IN  /\ DOMAIN cache' = unexpired
              /\ \A key \in unexpired : cache'[key] = cache[key]
              /\ removed(cache, now) = Cardinality(DOMAIN cache \ unexpired)
              /\ removed(cache, now) > 0
              /\ getCacheSize(cache') = Cardinality(unexpired)
     /\ epoch' # epoch => getCacheSize(cache') = 0
     /\ (Called /\ getCacheSize(cache) = 0) => ~ServedFromCache(New)]_vars

\* cleanExpiredCache deleted the entry of a call, one hour old, and kept an
\* entry written before that hour was over
C13_Witness ==
  \E c \in Returned :
    /\ calls[c].writes = 1 /\ calls[c].epoch = epoch
    /\ now - calls[c].writeTime >= CACHE_DURATION
    /\ calls[c].cacheKey \notin DOMAIN cache
    /\ \E key \in DOMAIN cache :
         cache[key].timestamp < calls[c].writeTime + CACHE_DURATION

\* C15: the confidence of every successful result lies in [0.3, 1.0]; a set
\* with populated fields scores at least 0.3, and a set with all twelve fields
\* populated scores exactly 1.0 for every requested kind.
C15_ConfidenceRange ==
  /\ \A c \in Returned :
       calls[c].result.success =>
         /\ calls[c].result.confidence >= (3 * ConfScale) \div 10
         /\ calls[c].result.confidence <= ConfScale
  /\ \A t \in ChemicalIdentifiers :
       calculateConfidence(Filled(ChemicalIdentifiers), t) = ConfScale

\* a remote source resolved a single field, not the requested one, and the
\* result was scored 0.3
C15_Witness ==
  \E c \in Returned :
    /\ calls[c].result.success
    /\ calls[c].result.source \in DbNames
    /\ Cardinality(PopulatedFields(calls[c].result.identifiers)) = 1
    /\ ~Populated(calls[c].result.identifiers, calls[c].sourceType)
    /\ calls[c].result.confidence = (3 * ConfScale) \div 10

\* C16 as stated: normalizeIdentifier applied to what it returned returns the
\* same again, for every kind and every string.
C16_Original == Evaluated("normalizeIdentifier") => eval.again = eval.out

\* the call k was rejected by the validation: it failed before it read the cache
Rejected(k) == k.pc = "returned" /\ ~k.result.success /\ k.reads = 0

\* C17 as stated: two requests of the same kind with the same normalized
\* value are both accepted or both rejected by the validation.
C17_Original ==
  [][(/\ Called /\ Prev.pc = "returned"
      /\ New.sourceType = Prev.sourceType
      /\ On(New).normalizedValue = On(Prev).normalizedValue) =>
       (Rejected(New) <=> Rejected(Prev))]_vars

Whitelisted(type, token) ==
  \/ token \in {"o", "c", "n", "h"}
  \/ /\ type = "iupacName"
     /\ token \in {"f", "cl", "br", "i", "s", "p", "hcl", "hf", "hbr", "hi"}

\* C19 as stated: a token of one to three letters, given as a SMILES or as a
\* name, passes the plausibility check exactly when it is whitelisted.
C19_Original ==
  (/\ Evaluated("isReasonableInput")
   /\ eval.type \in {"smiles", "iupacName"}
   /\ Len(trim(eval.value)) \in 1..3
   /\ AllIn(trim(eval.value), LetterSet)) =>
    (eval.out <=> Whitelisted(eval.type, toLowerCase(trim(eval.value))))

\* s is a non-empty string of digits
AllDigits(s) == s # "" /\ \A i \in 1..Len(s) : Ch(s, i) \in DigitSet

\* s is a string of digits that are all zero
AllZero(s) == \A i \in 1..Len(s) : Ch(s, i) = "0"

\* s is a string of ten letters and digits
TenAlphanumeric(s) == Len(s) = 10 /\ \A i \in 1..Len(s) : Ch(s, i) \in LetterSet \cup DigitSet

\* C20 as stated: the format check of pubchemCID and chemSpider accepts exactly
\* the non-empty strings of digits that are not zero, the one of unii exactly
\* the strings of ten alphanumeric characters, and iupacName and echaInfoCard
\* always pass.
C20_Original ==
  Evaluated("validateIdentifier") =>
    LET normalized == normalizeIdentifier(eval.type, eval.value)
    IN  /\ eval.type \in {"pubchemCID", "chemSpider"} =>
             (eval.out <=> (AllDigits(normalized) /\ ~AllZero(normalized)))
        /\ eval.type = "unii" => (eval.out <=> TenAlphanumeric(trim(eval.value)))
        /\ eval.type \in {"iupacName", "echaInfoCard"} => eval.out

\* C20: the format check of pubchemCID and chemSpider accepts exactly the
\* strings whose normalized form is a non-empty string of digits, zero
\* included, the one of unii exactly the strings of ten alphanumeric characters
\* once trimmed, and iupacName and echaInfoCard always pass.
C20_FormatCheck ==
  Evaluated("validateIdentifier") =>
    LET normalized == normalizeIdentifier(eval.type, eval.value)
    IN  /\ eval.type \in {"pubchemCID", "chemSpider"} =>
             (eval.out <=> AllDigits(normalized))
        /\ eval.type = "unii" => (eval.out <=> TenAlphanumeric(trim(eval.value)))
        /\ eval.type \in {"iupacName", "echaInfoCard"} => eval.out

\* the format check accepted the database ID "000"
C20_Witness ==
  /\ Evaluated("validateIdentifier")
  /\ eval.type = "pubchemCID" /\ eval.value = "000"
  /\ eval.out

\* the error of a request that no source resolved
NotFound(sourceValue) ==
  "Unable to find \"" \o sourceValue
    \o "\" in chemical databases. Please check the spelling or try a different identifier type."

\* C21: a call that went to the remote sources returns either the success of
\* the source it tried last or, once every source has been tried in vain, the
\* one not-found error, whose message names no source; the failure of a single
\* source is never what the caller gets.
C21_SourceFailuresHidden ==
  \A c \in Returned :
    LET k == calls[c]
    IN  k.order # <<>> =>
          \/ /\ k.result.success
             /\ k.result.source = k.order[Len(k.order)]
          \/ /\ ~k.result.success
             /\ k.order = PriorityOrder(Len(SortedDatabases))
             /\ k.result.error = NotFound(k.sourceValue)
             /\ \A name \in DbNames : ~includes(k.result.error, name)

\* a call returned the not-found error after PubChem timed out and NCI/CACTUS
\* answered with an HTTP error
C21_Witness ==
  \E c \in Returned :
    /\ ~calls[c].result.success
    /\ "throw" \in calls[c].seen["PubChem"]
    /\ calls[c].seen["NCI/CACTUS"] = {"notfound"}

\* r is a result object: success = true with identifiers, or success = false
\* with an error message
ResultObject(r) ==
  /\ "success" \in DOMAIN r
  /\ IF r.success
     THEN "identifiers" \in DOMAIN r /\ r.identifiers # Null
     ELSE "error" \in DOMAIN r /\ r.error # ""

\* C22: whatever the kind, the input and the answers of the remote sources
\* (data, not-found, HTTP error, timeout or exception), a call that is not
\* waiting for a network operation has returned a result object; it never
\* ends in a thrown error.
C22_NeverThrows ==
  \A c \in Started :
    /\ calls[c].pc \in {"await", "returned"}
    /\ calls[c].pc = "returned" => ResultObject(calls[c].result)

\* a call returned a result although every network operation of it failed
\* against both sources
C22_Witness ==
  \E c \in Returned :
    /\ calls[c].seen["PubChem"] = {"throw"}
    /\ calls[c].seen["NCI/CACTUS"] = {"throw"}
    /\ ResultObject(calls[c].result)

\* the waits of call k between its attempts against the source name, in ms
WaitsOf(k, name) ==
  LET ws == SelectSeq(k.waits, LAMBDA w : w.name = name)
  IN  [i \in DOMAIN ws |-> ws[i].ms]

\* C23 as stated: between two consecutive attempts against one source the call
\* waits 1000 ms * 2^attemptIndex, and not after the final attempt, so that a
\* source whose every network operation failed has been waited for 1000 ms,
\* 2000 ms, ... once per retry when the call is done with it.
C23_Original ==
  \A c \in Started : \A name \in DbNames :
    LET k == calls[c]
    IN  /\ \A i \in DOMAIN WaitsOf(k, name) : WaitsOf(k, name)[i] = 1000 * 2^(i - 1)
        /\ Len(WaitsOf(k, name)) <= Retries(name)
        /\ (Finished(k, name) /\ AllThrew(k, name)) =>
             Len(WaitsOf(k, name)) = Retries(name)

\* the phase the returned call k ended in, read from what it did
EndedIn(k) ==
  IF k.reads = 0 THEN "Validating"
  ELSE IF k.localQ = 0 THEN "CacheCheck"
  ELSE IF k.order = <<>> THEN "LocalLookup"
  ELSE "RemoteAttempt"

\* C24: a call goes through validation, cache check, local lookup and remote
\* attempts in this order.  It fails only in validation or after every remote
\* source has been tried without a result; a call that ends in the cache
\* check, in the local lookup or on a remote success succeeds.  The cache is
\* written once, and only by a call that succeeds from the local lookup or
\* from a remote attempt.
C24_OrchestratorPhases ==
  \A c \in Returned :
    LET k == calls[c]
        phase == EndedIn(k)
    IN  /\ k.reads <= 1 /\ k.localQ <= k.reads /\ k.writes <= k.localQ
        /\ k.order # <<>> => k.localQ = 1
        /\ phase = "Validating" => ~k.result.success /\ Invalid(k)
        /\ phase = "CacheCheck" => k.result.success /\ endsWith(k.result.source, " (cached)")
        /\ phase = "LocalLookup" => k.result.success /\ k.result.source = "Local Database"
        /\ (phase = "RemoteAttempt" /\ ~k.result.success) =>
             k.order = PriorityOrder(Len(SortedDatabases))
        /\ ~k.result.success => k.writes = 0
        /\ k.writes = 1 <=> (k.result.success /\ phase \in {"LocalLookup", "RemoteAttempt"})

\* a call failed after both remote sources, having written nothing, while the
\* cache held the entry of an earlier call
C24_Witness ==
  \E c \in Returned :
    /\ EndedIn(calls[c]) = "RemoteAttempt"
    /\ ~calls[c].result.success
    /\ calls[c].writes = 0
    /\ cache # EmptyCache

\* cache with the entry e stored under key
Stored(c, key, e) == [x \in DOMAIN c \cup {key} |-> IF x = key THEN e ELSE c[x]]

\* the call of slot c took this step and returned a success that it did not
\* read from the cache
Resolved(c) ==
  /\ calls'[c] # calls[c]
  /\ calls'[c].pc = "returned"
  /\ calls'[c].result.success
  /\ ~endsWith(calls'[c].result.source, " (cached)")

\* a call for the key of the call this step starts is waiting for a network
\* operation
SameKeyInFlight ==
  \E d \in Pending :
    calls[d].cacheKey = CheckedInputs[[type |-> New.sourceType, value |-> New.sourceValue]].cacheKey

\* C25: with several calls in flight, a call for a key another call is in
\* flight for makes its own remote attempt; a call that resolves stores its
\* own identifiers, the time of the write and its own source under its own key
\* in one step, replacing what another call stored there, and changes no other
\* slot; any other step of a call leaves the cache as it is.
C25_LastWriterWins ==
  [][/\ (Called /\ SameKeyInFlight /\ ~CacheHit(cache, New.cacheKey, now)) =>
          New.pc = "await" /\ New.attempts["PubChem"] = 1
     /\ \A c \in Slots :
          calls'[c] # calls[c] =>
            IF Resolved(c)
            THEN cache' = Stored(cache, calls'[c].cacheKey,
                                 [identifiers |-> calls'[c].result.identifiers,
                                  timestamp |-> now,
                                  source |-> calls'[c].result.source])
            ELSE cache' = cache]_vars

\* two calls for one key were in flight together and resolved with different
\* identifier sets: the cache holds the entry of the one that wrote last
C25_Witness ==
  \E c, d \in Returned :
    /\ c # d
    /\ calls[c].cacheKey = calls[d].cacheKey
    /\ calls[c].writes = 1 /\ calls[d].writes = 1
    /\ calls[c].writeTime < calls[d].writeTime + CACHE_DURATION
    /\ calls[d].writeTime <= calls[c].writeTime
    /\ calls[c].seq < calls[d].seq
    /\ calls[c].result.identifiers # calls[d].result.identifiers
    /\ cache[calls[c].cacheKey].identifiers = calls[c].result.identifiers
    /\ cache[calls[c].cacheKey].source = "NCI/CACTUS"

\* the App started call k for a field that now holds another value: the user
\* cleared or changed the input while the call is in flight
Abandoned(k) ==
  /\ k.pc = "await" /\ k.handler # Null
  /\ app.identifiers[k.handler.field] # k.handler.value

\* C26: a call whose input the user has cleared in the meantime still runs to
\* its end.  Each of its steps leaves the cache as it is, except the step in
\* which it resolves: that step replaces the slot of the call's own key, and
\* no other, by a complete entry with the identifiers the call returns, the
\* time of the write and the source that answered, which is the entry the
\* call record and the answer of the source determine, whatever the App did.
C26_AbandonedWriteValid ==
  [][\A c \in Slots :
       (Abandoned(calls[c]) /\ calls'[c] # calls[c]) =>
         /\ \E o \in Outcomes(calls[c]) :
              cache' = Resumed([k |-> calls[c], cache |-> cache], o, now).cache
         /\ \/ cache' = cache
            \/ /\ calls'[c].pc = "idle"
               /\ app'.last.kind = "merged"
               /\ calls[c].cacheKey
                    = getCacheKey(calls[c].handler.field,
                                  normalizeIdentifier(calls[c].handler.field,
                                                      calls[c].handler.value))
               /\ app'.lookupSource \in DbNames
               /\ cache' = Stored(cache, calls[c].cacheKey,
                                  [identifiers |-> app'.last.set, timestamp |-> now,
                                   source |-> app'.lookupSource])]_vars

\* the lookup of a name resolved after the user had cleared the field, and
\* the cache holds its entry
C26_Witness ==
  /\ app.last.kind = "merged"
  /\ app.sourceField = NoField
  /\ app.last.value = "acetone"
  /\ "iupacName:acetone" \in DOMAIN cache
  /\ cache["iupacName:acetone"].identifiers = app.last.set
  /\ Populated(app.last.set, "smiles")

\* C27: the identifier handed to the structure renderer is the first of
\* smiles, inchi, iupacName, casNumber and pubchemCID that holds a value, with
\* that value; when none of the five holds a value nothing is handed over,
\* whatever the other seven fields hold.
C27_RenderPrecedence ==
  Evaluated("currentMolecule") =>
    LET ids == eval.identifiers
        Is(t) == eval.out # Null /\ eval.out = [type |-> t, value |-> ids[t]]
    IN  IF ids.smiles # "" THEN Is("smiles")
        ELSE IF ids.inchi # "" THEN Is("inchi")
        ELSE IF ids.iupacName # "" THEN Is("iupacName")
        ELSE IF ids.casNumber # "" THEN Is("casNumber")
        ELSE IF ids.pubchemCID # "" THEN Is("pubchemCID")
        ELSE eval.out = Null

\* the name was handed to the renderer although a CAS number, a CID and a
\* UNII were present as well
C27_Witness ==
  /\ Evaluated("currentMolecule")
  /\ eval.identifiers.smiles = "" /\ eval.identifiers.inchi = ""
  /\ eval.identifiers.iupacName # "" /\ eval.identifiers.casNumber # ""
  /\ eval.identifiers.pubchemCID # "" /\ eval.identifiers.unii # ""
  /\ eval.out # Null /\ eval.out.type = "iupacName"

\* the keys of a table of the molecule parser
Keys(table) == {e[1] : e \in table}

\* C28 as stated: for a CID that is not in its table parsePubChemCID uses the
\* SMILES of allIdentifiers when there is one, otherwise the InChI when there
\* is one, and fails only when there is neither; a CID of the table never
\* consults the fallback.
C28_Original ==
  (Evaluated("parsePubChemCID") /\ AllDigits(trim(eval.cid))) =>
    LET known == trim(eval.cid) \in Keys(cidToMolecule)
        smiles == eval.allIdentifiers.smiles
        inchi == eval.allIdentifiers.inchi
    IN  /\ known => \E e \in cidToMolecule : e[1] = trim(eval.cid) /\ eval.out = Molecule(e[2])
        /\ (~known /\ smiles # "") => eval.out = parseSMILES(smiles)
        /\ (~known /\ smiles = "" /\ inchi # "") => eval.out = parseInChI(inchi)
        /\ eval.out.kind = "threw" <=> (~known /\ smiles = "" /\ inchi = "")

\* parseInChI reads nothing from inchi: it is not in the table and holds no
\* formula after "InChI=1S/"
Unreadable(inchi) ==
  trim(inchi) \notin Keys(inchiPatterns) \cup inherited /\ formulaMatch(trim(inchi)) = ""

\* C28: for a CID that is not in its table parsePubChemCID uses the SMILES of
\* allIdentifiers when there is one, otherwise the InChI when there is one,
\* and fails when there is neither or when there is only an InChI that
\* parseInChI cannot read; a CID of the table never consults the fallback.
C28_Fallback ==
  (Evaluated("parsePubChemCID") /\ AllDigits(trim(eval.cid))) =>
    LET known == trim(eval.cid) \in Keys(cidToMolecule)
        smiles == eval.allIdentifiers.smiles
        inchi == eval.allIdentifiers.inchi
    IN  /\ known => \E e \in cidToMolecule : e[1] = trim(eval.cid) /\ eval.out = Molecule(e[2])
        /\ (~known /\ smiles # "") => eval.out = parseSMILES(smiles)
        /\ (~known /\ smiles = "" /\ inchi # "") => eval.out = parseInChI(inchi)
        /\ eval.out.kind = "threw"
             <=> (~known /\ smiles = "" /\ (inchi = "" \/ Unreadable(inchi)))

\* an unknown CID was resolved from the SMILES although an InChI of another
\* molecule was there as well
C28_Witness ==
  /\ Evaluated("parsePubChemCID")
  /\ eval.cid = "999"
  /\ eval.allIdentifiers = [smiles |-> "CCO", inchi |-> "InChI=1S/H2O/h1H2"]
  /\ eval.out = Molecule("createEthanol")

\* C29 as stated: parseMolecule of a value that is not blank fails only when
\* there is no SMILES to fall back on: with a SMILES in allIdentifiers and a
\* kind other than smiles it returns a molecule for every kind and value, and
\* for the kind smiles it returns a molecule as well, parseSMILES never
\* failing.
C29_Original ==
  (Evaluated("parseMolecule") /\ trim(eval.value) # "") =>
    /\ (eval.allIdentifiers.smiles # "" /\ eval.type # "smiles") =>
         eval.out.kind = "molecule"
    /\ eval.type = "smiles" => eval.out.kind = "molecule"
    /\ eval.out.kind = "threw" => eval.allIdentifiers.smiles = ""

\* C30: provided every network operation completes or is aborted, a call that
\* waits for one returns in the end, and until then it has made at most
\* retries + 1 attempts against each source: three against PubChem and two
\* against NCI/CACTUS.
C30_Terminates ==
  /\ [](\A c \in Started : \A name \in DbNames :
          calls[c].attempts[name] <= Retries(name) + 1)
  /\ \A c \in Slots : (calls[c].pc = "await") ~> (calls[c].pc = "returned")

\* a call returned after it had gone through PubChem and NCI/CACTUS, every
\* network operation having been answered with an HTTP error
C30_Witness ==
  \E c \in Returned :
    /\ calls[c].attempts["PubChem"] >= 1 /\ calls[c].attempts["NCI/CACTUS"] >= 1
    /\ calls[c].seen["PubChem"] = {"notfound"} /\ calls[c].seen["NCI/CACTUS"] = {"notfound"}
    /\ calls[c].sourceValue = "acetone"

\* call k returned the failure that follows the last remote source
ExhaustedAll(k) ==
  /\ k.pc = "returned" /\ ~k.result.success
  /\ k.order = PriorityOrder(Len(SortedDatabases))

\* C31: the step in which a call returns its failure after the last remote
\* source leaves the cache as it is, and the call has written nothing to the
\* cache since it started; the same request made right after it (at any time,
\* so within the hour too) is not answered from the cache: it queries the local
\* table and waits for the first remote source again.
C31_FailuresNotCached ==
  [][/\ \A c \in Slots :
          (calls[c].pc = "await" /\ ExhaustedAll(calls'[c])) =>
             /\ cache' = cache
             /\ calls'[c].writes = 0 /\ calls'[c].writeTime = -1
     /\ (Called /\ ExhaustedAll(Prev)
           /\ New.sourceType = Prev.sourceType /\ New.sourceValue = Prev.sourceValue) =>
          /\ New.pc = "await"
          /\ New.reads = 1 /\ New.localQ = 1
          /\ New.order = PriorityOrder(1)
          /\ New.attempts[PriorityOrder(1)[1]] = 1]_vars

\* within one hour "acetone" was requested twice, and both requests failed
\* after PubChem and NCI/CACTUS; nothing is cached under its key
C31_Witness ==
  /\ now < CACHE_DURATION
  /\ \E c, d \in Returned :
       /\ calls[d].seq = calls[c].seq + 1
       /\ calls[c].sourceValue = "acetone" /\ calls[d].sourceValue = "acetone"
       /\ calls[c].sourceType = calls[d].sourceType
       /\ ExhaustedAll(calls[c]) /\ ExhaustedAll(calls[d])
       /\ calls[d].localQ = 1 /\ calls[d].attempts["PubChem"] = 1
       /\ calls[d].cacheKey \notin DOMAIN cache

\* the labels of the sources that fill the cache
SourceLabels == {"Local Database"} \cup DbNames

\* C32 as stated: every entry of the cache holds an identifier set with at
\* least one populated field, under the label "Local Database", "PubChem" or
\* "NCI/CACTUS", and an entry of the local table is the table's set for a
\* request with the key of the entry.
C32_Original ==
  \A key \in DOMAIN cache :
    LET e == cache[key]
    IN  /\ PopulatedFields(e.identifiers) # {}
        /\ e.source \in SourceLabels
        /\ e.source = "Local Database" =>
             \E i \in Requests : /\ CheckedInputs[i].cacheKey = key
                                 /\ CheckedInputs[i].localResult = e.identifiers

\* the user entered a value last, and no lookup is in flight
AllCompleted ==
  /\ Pending = {}
  /\ ~app.isLookingUp
  /\ app.typed.field # NoField /\ trim(app.typed.value) # ""

\* C33 as stated: once every lookup has completed, the field the user typed
\* into last shows the value entered last, and the result applied to the form
\* last is the result of the lookup for that value.
C33_Original ==
  AllCompleted =>
    /\ app.sourceField = app.typed.field
    /\ app.identifiers[app.typed.field] = app.typed.value
    /\ app.last.kind \in {"merged", "error"}
    /\ app.last.field = app.typed.field /\ app.last.value = app.typed.value

\* C34 as stated: after the user has emptied the source field or pressed
\* Clear, and as long as no value is entered, all twelve identifier fields are
\* empty and sourceField is null, also when a lookup that was started before
\* completes.
C34_Original ==
  app.typed.cleared =>
    /\ app.identifiers = EmptyIdentifiers
    /\ app.sourceField = NoField

\* C35 as stated: when the result of a successful lookup has been applied to
\* the form, every populated field other than the field of the lookup holds
\* the value the result has for it.
C35_Original ==
  app.last.kind = "merged" =>
    \A t \in ChemicalIdentifiers \ {app.last.field} :
      app.identifiers[t] # "" =>
        t \in DOMAIN app.last.set /\ app.identifiers[t] = app.last.set[t]

\* what the viewer shows for the props molecule and allIdentifiers once
\* parseMolecule has settled for them
ShownFor(molecule, allIdentifiers) ==
  IF NoMolecule(molecule) THEN {[view |-> "placeholder"]}
  ELSE {Shown(Loaded([InitialViewer EXCEPT !.molecule = molecule],
                     parseMolecule(molecule.type, molecule.value, allIdentifiers, smiles))) :
          smiles \in SmilesAnswers(molecule.value)}

\* C36 as stated: once the timer has fired and every pending parseMolecule has
\* settled, the viewer shows what parseMolecule gives for the latest molecule
\* prop, and nothing for a cleared prop.
C36_Original ==
  (~viewer.timer.set /\ viewer.pending = {}) =>
    Shown(viewer) \in ShownFor(viewer.molecule, viewer.allIdentifiers)

\* C37 as stated: whenever getLocalIdentifiers(kind, value) returns something,
\* it is an identifier set whose field of the requested kind is populated and
\* equals the value, trimmed, up to letter case.
C37_Original ==
  (eval.fn = "getLocalIdentifiers" /\ eval.done /\ eval.out # Null) =>
    /\ eval.type \in DOMAIN eval.out
    /\ toLowerCase(eval.out[eval.type]) = trim(toLowerCase(eval.value))

\* C38 as stated: for every identifier set S of the local table and every kind
\* k populated in S, lookupChemicalIdentifiers(k, S[k]) on an empty cache
\* returns success with source "Local Database" and the set S.
C38_Original ==
  (eval.fn = "lookupChemicalIdentifiers" /\ eval.done) =>
    /\ eval.pc = "returned"
    /\ eval.out = LocalResult(eval.identifiers)

\* the indices, counted from 0, of the atoms of element e in molecule
AtomsOf(molecule, e) ==
  {i \in 0..(Len(molecule.atoms) - 1) : molecule.atoms[i + 1].element = e}

\* the bonds of molecule that end at the atom of index i
BondsAt(molecule, i) ==
  {b \in DOMAIN molecule.bonds :
     i \in {molecule.bonds[b].atomIndex1, molecule.bonds[b].atomIndex2}}

\* C39 as stated: createSimpleAlkane(n) for n >= 2 returns n carbon atoms and
\* 2n+2 hydrogen atoms with pairwise distinct ids, every bond joins two
\* different atoms of the molecule, and every hydrogen atom is the end of
\* exactly one bond.
C39_Original ==
  (eval.fn = "createSimpleAlkane" /\ eval.done /\ eval.length >= 2) =>
    LET m == eval.out
        n == eval.length
    IN  /\ Cardinality(AtomsOf(m, "C")) = n
        /\ Cardinality(AtomsOf(m, "H")) = 2 * n + 2
        /\ \A i, j \in DOMAIN m.atoms : i # j => m.atoms[i].id # m.atoms[j].id
        /\ \A b \in DOMAIN m.bonds :
             /\ m.bonds[b].atomIndex1 \in 0..(Len(m.atoms) - 1)
             /\ m.bonds[b].atomIndex2 \in 0..(Len(m.atoms) - 1)
             /\ m.bonds[b].atomIndex1 # m.bonds[b].atomIndex2
        /\ \A h \in AtomsOf(m, "H") : Cardinality(BondsAt(m, h)) = 1

====
